---------------------------- MODULE Spec2Model ----------------------------
(***************************************************************************)
(* Change detection and repair verification of the ai-service:            *)
(*   - merge_nearby_boxes    (services/defect_detection_service.py and    *)
(*                            services/deep_defect_detection_service.py)  *)
(*   - detect_and_verify     (same two services, with the VLM service of  *)
(*                            services/vlm_service.py)                    *)
(*   - POST /analyze         (main.py)                                    *)
(*                                                                         *)
(* Units.  Confidences of detect_and_verify are counted in 1/1000         *)
(* (0.6 is 600), so that the halving of a confidence is exact.  Distances, *)
(* similarities and confidences of /analyze are counted in 1/10000        *)
(* (confidence 0.60 is 6000, feature distance 4.50 is 45000, -1 is        *)
(* -10000), the finest grain the code rounds to.                          *)
(***************************************************************************)
EXTENDS Integers, Sequences, FiniteSets, TLC

VARIABLES
    \* ---- merge_nearby_boxes applied once and twice
    m_pc,           \* "contours" | "merged" | "remerged"
    m_regions,      \* the list handed to merge_nearby_boxes
    m_once,         \* merge_nearby_boxes(m_regions)
    m_twice,        \* merge_nearby_boxes(m_once)
    \* ---- one call of detect_and_verify on a constructed service
    service,        \* "cv": DefectDetectionService, "deep": DeepDefectDetectionService
    api_key,        \* whether a Groq API key is given or set in the environment
    vlm_init_raises,\* whether constructing the VLMService raised
    vlm_service,    \* self.vlm_service: None | "disabled" | "enabled"
    width, height,  \* size of the preprocessed images
    contours,       \* regions of the contours found in the difference mask
    pc,             \* position in detect_and_verify
    changed_regions,
    filtered_regions,
    idx,            \* 1-based position in filtered_regions[:5]
    cv_analysis,    \* <<>> or <<the heuristic verdict of the current region>>
    vlm_analysis,   \* <<>> for None, or <<the dictionary of the VLM service>>
    final_is_repair,
    final_confidence,
    defect_detections,
    total_repair_score,
    result,         \* <<>> or <<the dictionary detect_and_verify returns>>
    vlm_calls,      \* requests sent to the external provider so far
    \* ---- one POST /analyze request, from STEP 2 on
    a_pc,           \* position in analyze
    after_had_video,
    clip_available, \* the module-level CLIP_AVAILABLE
    before_data,    \* the before frames: index, width, height
    n_after,        \* len(after_data)
    b_idx,          \* 1-based position of the loop over before_data
    detected_defects,
    d_idx,          \* 1-based position of the loop over detected_defects
    c_idx,          \* 1-based position of the loop over after_data
    best_result,    \* <<>> for None, or <<the verdict kept so far>>
    best_confidence,
    best_after_idx, \* -1 for None, or an index into after_data
    evaluated,      \* history: the verdicts computed for the current defect
    failed,         \* history: the after indexes whose comparison raised
    phase1_failed,  \* history: a phase 1 call raised or did not parse
    defect_results,
    response,       \* <<>> or <<the dictionary analyze returns>>
    \* ---- one call of a function on its own
    f_pc,           \* "call" before the call, "return" after it
    f_in,           \* the arguments
    f_out           \* <<>> or <<what the call returned>>

mergeVars == <<m_pc, m_regions, m_once, m_twice>>

detectVars ==
    <<service, api_key, vlm_init_raises, vlm_service, width, height, contours,
      pc, changed_regions, filtered_regions, idx, cv_analysis, vlm_analysis,
      final_is_repair, final_confidence, defect_detections,
      total_repair_score, result, vlm_calls>>

analyzeVars ==
    <<a_pc, after_had_video, clip_available, before_data, n_after, b_idx,
      detected_defects, d_idx, c_idx, best_result, best_confidence,
      best_after_idx, evaluated, failed, phase1_failed, defect_results,
      response>>

fnVars == <<f_pc, f_in, f_out>>

vars == <<mergeVars, detectVars, analyzeVars, fnVars>>

-----------------------------------------------------------------------------
(* Generic helpers *)

Max(a, b) == IF a >= b THEN a ELSE b

Min(a, b) == IF a <= b THEN a ELSE b

SeqsUpTo(S, n) == UNION {[1..k -> S] : k \in 0..n}

None == "None"

-----------------------------------------------------------------------------
(* Bounds of the model *)

\* longest list handed to merge_nearby_boxes
MaxMergeRegions == 3

\* most contours of one detect_and_verify call
MaxRegions == 1

-----------------------------------------------------------------------------
(* Program constants *)

\* self.merge_distance, the same in both services
merge_distance == 80

\* self.min_contour_area of DefectDetectionService
min_contour_area == 1500

-----------------------------------------------------------------------------
(* Regions as find_differences / detect_changes_deep build them *)

Box(x1, y1, x2, y2) == [x1 |-> x1, y1 |-> y1, x2 |-> x2, y2 |-> y2]

Region(bbox, area) == [bbox |-> bbox, area |-> area, type |-> "changed_region"]

\* pixel coordinates the contours' bounding rectangles are drawn from
XCoords == {0, 50, 150, 200}

YCoords == {0, 50, 100}

\* contour areas the regions are drawn from
ContourAreas == {2000, 6000}

\* cv2.boundingRect gives w >= 1 and h >= 1, and the contour passed the
\* "area > self.min_contour_area" test and lies inside its rectangle
ContourRegions ==
    {Region(Box(x1, y1, x2, y2), a) :
        x1 \in XCoords, y1 \in YCoords, x2 \in XCoords, y2 \in YCoords,
        a \in ContourAreas}

IsContourRegion(r) ==
    /\ r.bbox.x1 < r.bbox.x2
    /\ r.bbox.y1 < r.bbox.y2
    /\ r.area > min_contour_area
    /\ r.area <= (r.bbox.x2 - r.bbox.x1) * (r.bbox.y2 - r.bbox.y1)

RegionInputs == {r \in ContourRegions : IsContourRegion(r)}

-----------------------------------------------------------------------------
(* merge_nearby_boxes *)

\* dx, dy of the code: the gap between the accumulated box and bbox2
GapX(acc, bbox2) == Max(0, Max(acc.x1, bbox2.x1) - Min(acc.x2, bbox2.x2))

GapY(acc, bbox2) == Max(0, Max(acc.y1, bbox2.y1) - Min(acc.y2, bbox2.y2))

\* "distance < self.merge_distance" with distance = sqrt(dx**2 + dy**2);
\* on integers this is dx^2 + dy^2 < merge_distance^2
IsNear(acc, bbox2) ==
    LET dx == GapX(acc, bbox2)
        dy == GapY(acc, bbox2)
    IN  dx * dx + dy * dy < merge_distance * merge_distance

\* Absorb without "total_area += region2['area']"
AbsorbDropsArea(acc, region2) ==
    [x1 |-> Min(acc.x1, region2.bbox.x1),
     y1 |-> Min(acc.y1, region2.bbox.y1),
     x2 |-> Max(acc.x2, region2.bbox.x2),
     y2 |-> Max(acc.y2, region2.bbox.y2),
     total_area |-> acc.total_area]

\* the body of "if distance < self.merge_distance"
Absorb(acc, region2) ==
    [x1 |-> Min(acc.x1, region2.bbox.x1),
     y1 |-> Min(acc.y1, region2.bbox.y1),
     x2 |-> Max(acc.x2, region2.bbox.x2),
     y2 |-> Max(acc.y2, region2.bbox.y2),
     total_area |-> acc.total_area + region2.area]

\* the inner loop "for j, region2 in enumerate(regions[i+1:], start=i+1)"
RECURSIVE MergeInner(_, _, _, _)
MergeInner(regions, j, acc, used) ==
    IF j > Len(regions) THEN [acc |-> acc, used |-> used]
    ELSE IF j \in used THEN MergeInner(regions, j + 1, acc, used)
    ELSE IF IsNear(acc, regions[j].bbox)
         THEN MergeInner(regions, j + 1, Absorb(acc, regions[j]), used \cup {j})
         ELSE MergeInner(regions, j + 1, acc, used)

\* the outer loop "for i, region1 in enumerate(regions)"
RECURSIVE MergeOuter(_, _, _, _)
MergeOuter(regions, i, merged, used) ==
    IF i > Len(regions) THEN merged
    ELSE IF i \in used THEN MergeOuter(regions, i + 1, merged, used)
    ELSE LET region1 == regions[i]
             start == [x1 |-> region1.bbox.x1, y1 |-> region1.bbox.y1,
                       x2 |-> region1.bbox.x2, y2 |-> region1.bbox.y2,
                       total_area |-> region1.area]
             inner == MergeInner(regions, i + 1, start, used)
             out == Region(Box(inner.acc.x1, inner.acc.y1,
                               inner.acc.x2, inner.acc.y2),
                           inner.acc.total_area)
         IN  MergeOuter(regions, i + 1, Append(merged, out),
                        inner.used \cup {i})

merge_nearby_boxes(regions) ==
    IF regions = <<>> THEN <<>> ELSE MergeOuter(regions, 1, <<>>, {})

-----------------------------------------------------------------------------
(* Text of a provider response: a sequence of characters.                  *)

Upper == <<"A", "B", "C", "D", "E", "F", "G", "H", "I", "J", "K", "L", "M",
           "N", "O", "P", "Q", "R", "S", "T", "U", "V", "W", "X", "Y", "Z">>

LowerCase == <<"a", "b", "c", "d", "e", "f", "g", "h", "i", "j", "k", "l", "m",
               "n", "o", "p", "q", "r", "s", "t", "u", "v", "w", "x", "y", "z">>

LowerChar(c) ==
    IF \E i \in 1..Len(Upper) : Upper[i] = c
    THEN LowerCase[CHOOSE i \in 1..Len(Upper) : Upper[i] = c]
    ELSE c

\* str.lower()
lower(text) == [i \in 1..Len(text) |-> LowerChar(text[i])]

\* "word in text" on Python strings: word is a substring of text
Contains(text, word) ==
    \E i \in 1..(Len(text) - Len(word) + 1) :
        SubSeq(text, i, i + Len(word) - 1) = word

\* any(word in text for word in words)
AnyIn(words, text) == \E word \in words : Contains(text, word)

strong_repair_words ==
    {<<"r", "e", "p", "a", "i", "r", "e", "d">>,
     <<"f", "i", "x", "e", "d">>,
     <<"r", "e", "p", "a", "i", "r", " ", "v", "i", "s", "i", "b", "l", "e">>,
     <<"c", "l", "e", "a", "r", "l", "y", " ", "r", "e", "p", "a", "i", "r", "e", "d">>,
     <<"s", "u", "c", "c", "e", "s", "s", "f", "u", "l", "l", "y", " ", "r", "e", "p", "a", "i", "r", "e", "d">>,
     <<"d", "a", "m", "a", "g", "e", " ", "r", "e", "m", "o", "v", "e", "d">>,
     <<"i", "m", "p", "r", "o", "v", "e", "m", "e", "n", "t">>}

repair_keyword_words ==
    {<<"r", "e", "p", "a", "i", "r">>,
     <<"f", "i", "x">>,
     <<"i", "m", "p", "r", "o", "v", "e", "d">>,
     <<"b", "e", "t", "t", "e", "r">>,
     <<"r", "e", "s", "t", "o", "r", "e", "d">>}

not_repaired_phrases ==
    {<<"n", "o", "t", " ", "r", "e", "p", "a", "i", "r", "e", "d">>,
     <<"n", "o", "t", " ", "f", "i", "x", "e", "d">>,
     <<"n", "o", " ", "r", "e", "p", "a", "i", "r">>,
     <<"n", "o", " ", "f", "i", "x">>,
     <<"s", "t", "i", "l", "l", " ", "d", "a", "m", "a", "g", "e", "d">>,
     <<"d", "e", "f", "e", "c", "t", " ", "s", "t", "i", "l", "l">>,
     <<"s", "a", "m", "e", " ", "d", "e", "f", "e", "c", "t">>,
     <<"s", "t", "i", "l", "l", " ", "v", "i", "s", "i", "b", "l", "e">>,
     <<"r", "e", "m", "a", "i", "n", "s">>,
     <<"u", "n", "c", "h", "a", "n", "g", "e", "d">>}

false_positive_phrases ==
    {<<"l", "i", "g", "h", "t", "i", "n", "g">>,
     <<"s", "h", "a", "d", "o", "w">>,
     <<"a", "n", "g", "l", "e">>,
     <<"b", "r", "i", "g", "h", "t", "n", "e", "s", "s", " ", "o", "n", "l", "y">>,
     <<"c", "a", "m", "e", "r", "a">>,
     <<"e", "x", "p", "o", "s", "u", "r", "e">>,
     <<"j", "u", "s", "t", " ", "l", "i", "g", "h", "t", "e", "r">>,
     <<"o", "n", "l", "y", " ", "b", "r", "i", "g", "h", "t", "e", "r">>}

certain_words ==
    {<<"c", "l", "e", "a", "r", "l", "y">>, <<"o", "b", "v", "i", "o", "u", "s">>}

hedging_words ==
    {<<"p", "o", "s", "s", "i", "b", "l", "y">>, <<"m", "a", "y", "b", "e">>,
     <<"u", "n", "c", "e", "r", "t", "a", "i", "n">>}

-----------------------------------------------------------------------------
(* Python values: a bool that may also be None is "True", "False", "None" *)

PyBool(b) == IF b THEN "True" ELSE "False"

\* truth value of a Python bool-or-None
Truthy(v) == v = "True"

-----------------------------------------------------------------------------
(* VLMService (services/vlm_service.py)                                    *)

\* "Determine verdict with priority": the verdict and the base confidence
ParseVerdict(strong_repair, repair_keywords, not_repaired, false_positive) ==
    IF strong_repair /\ ~not_repaired /\ ~false_positive
    THEN [verdict |-> "REPAIRED", confidence |-> 900]
    ELSE IF repair_keywords /\ ~not_repaired /\ ~false_positive
    THEN [verdict |-> "REPAIRED", confidence |-> 750]
    ELSE IF not_repaired \/ false_positive
    THEN [verdict |-> "NOT_REPAIRED", confidence |-> 850]
    ELSE [verdict |-> "UNCERTAIN", confidence |-> 500]

\* AdjustConfidence without the cap at 0.95 and the floor at 0.4
AdjustConfidenceUnbounded(confidence, response_lower) ==
    IF AnyIn(certain_words, response_lower)
    THEN confidence + 100
    ELSE IF AnyIn(hedging_words, response_lower)
    THEN confidence - 200
    ELSE confidence

\* "Adjust confidence based on language certainty"
AdjustConfidence(confidence, response_lower) ==
    IF AnyIn(certain_words, response_lower)
    THEN Min(950, confidence + 100)
    ELSE IF AnyIn(hedging_words, response_lower)
    THEN Max(400, confidence - 200)
    ELSE confidence

\* the 'reasoning' entry (the response text itself) is not kept
_parse_vlm_response(response_text) ==
    LET response_lower == lower(response_text)
        base == ParseVerdict(AnyIn(strong_repair_words, response_lower),
                             AnyIn(repair_keyword_words, response_lower),
                             AnyIn(not_repaired_phrases, response_lower),
                             AnyIn(false_positive_phrases, response_lower))
    IN  [vlm_enabled |-> TRUE,
         is_repair |-> PyBool(base.verdict = "REPAIRED"),
         confidence |-> AdjustConfidence(base.confidence, response_lower),
         verdict |-> base.verdict]

\* the dictionary of the "except Exception" branch of analyze_defect_region
VlmErrorResult ==
    [vlm_enabled |-> TRUE, is_repair |-> None, confidence |-> 0,
     verdict |-> "ERROR"]

\* words the provider's answers are made of
ResponseWords ==
    {<<"R", "E", "P", "A", "I", "R", "E", "D">>,
     <<"N", "O", "T", "_", "R", "E", "P", "A", "I", "R", "E", "D">>,
     <<"n", "o", "t", " ", "r", "e", "p", "a", "i", "r", "e", "d">>,
     <<"i", "m", "p", "r", "o", "v", "e", "d">>,
     <<"l", "i", "g", "h", "t", "i", "n", "g">>,
     <<"r", "u", "s", "t">>,
     <<"c", "l", "e", "a", "r", "l", "y">>,
     <<"p", "o", "s", "s", "i", "b", "l", "y">>}

\* longest answer, in words
MaxWords == 2

RECURSIVE JoinWords(_)
JoinWords(ws) ==
    IF ws = <<>> THEN <<>>
    ELSE IF Len(ws) = 1 THEN ws[1]
    ELSE ws[1] \o <<" ">> \o JoinWords(Tail(ws))

ResponseTexts == {JoinWords(ws) : ws \in SeqsUpTo(ResponseWords, MaxWords)}

\* what the call to the provider can do: raise (network error, timeout, a
\* response without text), or return a text
ProviderOutcomes ==
    {[raises |-> TRUE, text |-> <<>>]} \cup
    {[raises |-> FALSE, text |-> t] : t \in ResponseTexts}

\* analyze_defect_region once self.enabled holds: the try block and its
\* except branch
AnalyzeEnabled(outcome) ==
    IF outcome.raises THEN VlmErrorResult
    ELSE _parse_vlm_response(outcome.text)

\* every dictionary analyze_defect_region can return when enabled
VlmResults == {AnalyzeEnabled(o) : o \in ProviderOutcomes}

\* ServiceVlm without the test of the API key
ServiceVlmNoKeyTest(has_api_key, construction_raises) ==
    IF construction_raises THEN None ELSE "enabled"

\* VLMService.__init__ and the try/except around it in the two services'
\* __init__: None when the construction raised, otherwise enabled exactly
\* when an API key is present
ServiceVlm(has_api_key, construction_raises) ==
    IF construction_raises THEN None
    ELSE IF has_api_key THEN "enabled" ELSE "disabled"

-----------------------------------------------------------------------------
(* Specification SpecMerge: the contour loop builds a list of regions,     *)
(* merge_nearby_boxes is applied to it, and applied again to its result    *)

MergeStart ==
    /\ m_pc = "contours"
    /\ m_regions = <<>>
    /\ m_once = <<>>
    /\ m_twice = <<>>

\* no detect_and_verify call is in progress
DetectIdle ==
    /\ service = "cv"
    /\ api_key = FALSE
    /\ vlm_init_raises = FALSE
    /\ vlm_service = "disabled"
    /\ width = 0
    /\ height = 0
    /\ contours = <<>>
    /\ pc = "idle"
    /\ changed_regions = <<>>
    /\ filtered_regions = <<>>
    /\ idx = 0
    /\ cv_analysis = <<>>
    /\ vlm_analysis = <<>>
    /\ final_is_repair = "False"
    /\ final_confidence = 0
    /\ defect_detections = <<>>
    /\ total_repair_score = 0
    /\ result = <<>>
    /\ vlm_calls = 0

\* no /analyze request is in progress
AnalyzeIdle ==
    /\ a_pc = "idle"
    /\ after_had_video = FALSE
    /\ clip_available = FALSE
    /\ before_data = <<>>
    /\ n_after = 0
    /\ b_idx = 0
    /\ detected_defects = <<>>
    /\ d_idx = 0
    /\ c_idx = 0
    /\ best_result = <<>>
    /\ best_confidence = 0
    /\ best_after_idx = -1
    /\ evaluated = {}
    /\ failed = {}
    /\ phase1_failed = FALSE
    /\ defect_results = <<>>
    /\ response = <<>>

\* no function is called on its own
FnIdle ==
    /\ f_pc = "idle"
    /\ f_in = <<>>
    /\ f_out = <<>>

InitMerge == MergeStart /\ DetectIdle /\ AnalyzeIdle /\ FnIdle

\* find_differences / detect_changes_deep: "changed_regions.append({...})",
\* once per contour that passes the area test
AppendContour ==
    /\ m_pc = "contours"
    /\ Len(m_regions) < MaxMergeRegions
    /\ \E r \in RegionInputs : m_regions' = Append(m_regions, r)
    /\ UNCHANGED <<m_pc, m_once, m_twice>>
    /\ UNCHANGED <<detectVars, analyzeVars, fnVars>>

\* "merged_regions = self.merge_nearby_boxes(changed_regions)"
MergeOnce ==
    /\ m_pc = "contours"
    /\ m_once' = merge_nearby_boxes(m_regions)
    /\ m_pc' = "merged"
    /\ UNCHANGED <<m_regions, m_twice>>
    /\ UNCHANGED <<detectVars, analyzeVars, fnVars>>

\* merge_nearby_boxes applied to its own result
MergeTwice ==
    /\ m_pc = "merged"
    /\ m_twice' = merge_nearby_boxes(m_once)
    /\ m_pc' = "remerged"
    /\ UNCHANGED <<m_regions, m_once>>
    /\ UNCHANGED <<detectVars, analyzeVars, fnVars>>

NextMerge == AppendContour \/ MergeOnce \/ MergeTwice

SpecMerge == InitMerge /\ [][NextMerge]_vars

-----------------------------------------------------------------------------
(* RepairScorer: analyze_repair_quality and analyze_repair_quality_deep.   *)
(* The indicators are what the image operations measure on a region pair:  *)
(* rust_reduction in percent, brightness_increase and                      *)
(* uniformity_improvement in L units, edge_reduction in 1/1000,            *)
(* feature_distance in units, perceptual_similarity in 1/100.              *)

Points(cond, points) == IF cond THEN points ELSE 0

\* analyze_repair_quality with the rust comparison turned around
analyze_repair_quality_less_rust(ind) ==
    LET repair_score ==
            Points(ind.rust_reduction < 8, 35)
          + Points(ind.brightness_increase > 8, 30)
          + Points(ind.uniformity_improvement > 2, 20)
          + Points(ind.edge_reduction > 20, 15)
    IN  [is_repair |-> PyBool(repair_score > 60),
         confidence |-> Min(repair_score, 100) * 10,
         indicators |-> ind,
         repair_score |-> repair_score]

\* DefectDetectionService.analyze_repair_quality, from the indicators on
analyze_repair_quality(ind) ==
    LET repair_score ==
            Points(ind.rust_reduction > 8, 35)
          + Points(ind.brightness_increase > 8, 30)
          + Points(ind.uniformity_improvement > 2, 20)
          + Points(ind.edge_reduction > 20, 15)
    IN  [is_repair |-> PyBool(repair_score > 60),
         confidence |-> Min(repair_score, 100) * 10,
         indicators |-> ind,
         repair_score |-> repair_score]

\* DeepDefectDetectionService.analyze_repair_quality_deep; deep_ok is FALSE
\* when the deep feature extraction raised
analyze_repair_quality_deep(ind, deep_ok) ==
    LET feature_distance == IF deep_ok THEN ind.feature_distance ELSE 0
        region_perceptual_sim == IF deep_ok THEN ind.perceptual_similarity ELSE 50
        repair_score ==
            Points(feature_distance > 5, 20)
          + Points(feature_distance > 15, 20)
          + Points(ind.rust_reduction > 5, 20)
          + Points(ind.brightness_increase > 5, 15)
          + Points(ind.uniformity_improvement > 0, 15)
          + Points(ind.edge_reduction > 10, 10)
          - Points(region_perceptual_sim > 95, 20)
    IN  [is_repair |-> PyBool(repair_score > 45),
         confidence |-> Min(repair_score, 100) * 10,
         indicators |-> [ind EXCEPT !.feature_distance = feature_distance,
                                    !.perceptual_similarity = region_perceptual_sim],
         repair_score |-> repair_score]

\* measurements the regions of a call are drawn from
RustValues == {0, 9}

BrightnessValues == {0, 9}

UniformityValues == {0, 3}

EdgeValues == {0, 25}

FeatureDistances == {0, 10, 20}

PerceptualSimilarities == {50, 97}

CvMeasurements ==
    [rust_reduction : RustValues, brightness_increase : BrightnessValues,
     uniformity_improvement : UniformityValues, edge_reduction : EdgeValues]

DeepMeasurements ==
    [rust_reduction : RustValues, brightness_increase : BrightnessValues,
     uniformity_improvement : UniformityValues, edge_reduction : EdgeValues,
     feature_distance : FeatureDistances,
     perceptual_similarity : PerceptualSimilarities]

\* the part of a scorer's dictionary detect_and_verify reads afterwards
Heuristic(analysis) ==
    [is_repair |-> analysis.is_repair, confidence |-> analysis.confidence,
     repair_score |-> analysis.repair_score]

\* every heuristic verdict the scorer of a service can return
HeuristicVerdicts(svc) ==
    IF svc = "cv"
    THEN {Heuristic(analyze_repair_quality(m)) : m \in CvMeasurements}
    ELSE {Heuristic(analyze_repair_quality_deep(m, ok)) :
              m \in DeepMeasurements, ok \in BOOLEAN}

-----------------------------------------------------------------------------
(* detect_and_verify (the same code in both services, up to the scorer     *)
(* and to find_differences / detect_changes_deep)                          *)

\* list.sort(key=area, reverse=True): stable, largest area first
RECURSIVE InsertByArea(_, _)
InsertByArea(sorted, r) ==
    IF sorted = <<>> THEN <<r>>
    ELSE IF Head(sorted).area >= r.area
         THEN <<Head(sorted)>> \o InsertByArea(Tail(sorted), r)
         ELSE <<r>> \o sorted

RECURSIVE SortByAreaDesc(_)
SortByAreaDesc(regions) ==
    IF regions = <<>> THEN <<>>
    ELSE InsertByArea(SortByAreaDesc(SubSeq(regions, 1, Len(regions) - 1)),
                      regions[Len(regions)])

\* what find_differences (cv: merge, then sort) and detect_changes_deep
\* (deep: merge only) return for the contours' regions
FoundRegions(svc, regs) ==
    IF svc = "cv" THEN SortByAreaDesc(merge_nearby_boxes(regs))
    ELSE merge_nearby_boxes(regs)

\* the area filter with both bounds inclusive
PassesAreaFilterInclusive(region, w, h) ==
    /\ 2 * region.area * 100 >= w * h
    /\ region.area * 100 <= 30 * w * h

\* "min_area_percentage < area_pct < max_area_percentage" with
\* area_pct = area / (width * height) * 100, bounds 0.5 and 30
PassesAreaFilter(region, w, h) ==
    /\ 2 * region.area * 100 > w * h
    /\ region.area * 100 < 30 * w * h

\* number of pixels of img[y1:y2, x1:x2] on an image of w x h pixels
SliceSize(bbox, w, h) ==
    Max(0, Min(bbox.x2, w) - Min(bbox.x1, w))
  * Max(0, Min(bbox.y2, h) - Min(bbox.y1, h))

\* "filtered_regions[:5]"
TopRegions(regions) == SubSeq(regions, 1, Min(5, Len(regions)))

\* "if self.vlm_service and self.vlm_service.enabled"
VlmActive(vlm) == vlm # None /\ vlm = "enabled"

\* VLMService.analyze_defect_region: the dictionaries it can return, over
\* all the provider can do
analyze_defect_region(enabled) ==
    IF ~enabled
    THEN {[vlm_enabled |-> FALSE, is_repair |-> None, confidence |-> 0]}
    ELSE VlmResults

\* Fuse with the override taking is_repair only (the heuristic confidence kept)
FuseKeepsConfidence(cv, vlm) ==
    IF vlm.vlm_enabled
    THEN IF vlm.confidence > 600
         THEN [is_repair |-> vlm.is_repair, confidence |-> cv.confidence]
         ELSE IF ~Truthy(vlm.is_repair)
              THEN [is_repair |-> cv.is_repair,
                    confidence |-> (cv.confidence * 5) \div 10]
              ELSE [is_repair |-> cv.is_repair, confidence |-> cv.confidence]
    ELSE [is_repair |-> cv.is_repair, confidence |-> cv.confidence]

\* Fuse with a weak "not repaired" also clearing is_repair
FuseWeakFlips(cv, vlm) ==
    IF vlm.vlm_enabled
    THEN IF vlm.confidence > 600
         THEN [is_repair |-> vlm.is_repair, confidence |-> vlm.confidence]
         ELSE IF ~Truthy(vlm.is_repair)
              THEN [is_repair |-> "False",
                    confidence |-> (cv.confidence * 5) \div 10]
              ELSE [is_repair |-> cv.is_repair, confidence |-> cv.confidence]
    ELSE [is_repair |-> cv.is_repair, confidence |-> cv.confidence]

\* the block under "if vlm_analysis['vlm_enabled']": the final verdict from
\* the heuristic verdict cv and the VLM dictionary vlm
Fuse(cv, vlm) ==
    IF vlm.vlm_enabled
    THEN IF vlm.confidence > 600
         THEN [is_repair |-> vlm.is_repair, confidence |-> vlm.confidence]
         ELSE IF ~Truthy(vlm.is_repair)
              THEN [is_repair |-> cv.is_repair,
                    confidence |-> (cv.confidence * 5) \div 10]
              ELSE [is_repair |-> cv.is_repair, confidence |-> cv.confidence]
    ELSE [is_repair |-> cv.is_repair, confidence |-> cv.confidence]

\* _generate_summary, by the case it reports
_generate_summary(repaired, total) ==
    IF total = 0 THEN "no_changes"
    ELSE IF repaired = 0 THEN "none_verified"
    ELSE IF repaired = total THEN "all_repaired"
    ELSE "some_repaired"

RepairedCount(detections) ==
    Cardinality({i \in 1..Len(detections) : Truthy(detections[i].is_repair)})

\* image sizes (width, height) of a call
ImageSizes == {<<200, 100>>}

\* regions of the contours of a call
DetectContours ==
    {Region(Box(0, 0, 50, 50), 2000),
     Region(Box(150, 50, 200, 100), 2000),
     Region(Box(0, 0, 200, 100), 6000)}

MergeIdle ==
    /\ m_pc = "idle"
    /\ m_regions = <<>>
    /\ m_once = <<>>
    /\ m_twice = <<>>

\* the service is constructed, the images are preprocessed to one size, and
\* the difference mask has its contours
Init ==
    /\ MergeIdle
    /\ AnalyzeIdle
    /\ FnIdle
    /\ service \in {"cv", "deep"}
    /\ api_key \in BOOLEAN
    /\ vlm_init_raises \in BOOLEAN
    /\ vlm_service = ServiceVlm(api_key, vlm_init_raises)
    /\ \E size \in ImageSizes : width = size[1] /\ height = size[2]
    /\ contours \in SeqsUpTo(DetectContours, MaxRegions)
    /\ pc = "find_differences"
    /\ changed_regions = <<>>
    /\ filtered_regions = <<>>
    /\ idx = 0
    /\ cv_analysis = <<>>
    /\ vlm_analysis = <<>>
    /\ final_is_repair = "False"
    /\ final_confidence = 0
    /\ defect_detections = <<>>
    /\ total_repair_score = 0
    /\ result = <<>>
    /\ vlm_calls = 0

\* "changed_regions, diff_mask = self.find_differences(before_cv, after_cv)"
FindDifferences ==
    /\ pc = "find_differences"
    /\ changed_regions' = FoundRegions(service, contours)
    /\ pc' = "filter"
    /\ UNCHANGED <<service, api_key, vlm_init_raises, vlm_service, width,
                   height, contours, filtered_regions, idx, cv_analysis,
                   vlm_analysis, final_is_repair, final_confidence,
                   defect_detections, total_repair_score, result, vlm_calls>>
    /\ UNCHANGED <<mergeVars, analyzeVars, fnVars>>

\* the loop "for region in changed_regions" that fills filtered_regions
AreaFilter ==
    /\ pc = "filter"
    /\ filtered_regions' =
           SelectSeq(changed_regions,
                     LAMBDA r : PassesAreaFilter(r, width, height))
    /\ idx' = 1
    /\ pc' = "loop"
    /\ UNCHANGED <<service, api_key, vlm_init_raises, vlm_service, width,
                   height, contours, changed_regions, cv_analysis,
                   vlm_analysis, final_is_repair, final_confidence,
                   defect_detections, total_repair_score, result, vlm_calls>>
    /\ UNCHANGED <<mergeVars, analyzeVars, fnVars>>

\* one pass of "for idx, region in enumerate(filtered_regions[:5])" up to the
\* VLM step: the region pair is cut out; an empty pair is skipped; otherwise
\* the scorer of the service gives the heuristic verdict
ScoreRegion ==
    /\ pc = "loop"
    /\ idx <= Len(TopRegions(filtered_regions))
    /\ IF SliceSize(filtered_regions[idx].bbox, width, height) = 0
       THEN /\ idx' = idx + 1
            /\ UNCHANGED <<pc, cv_analysis, vlm_analysis, final_is_repair,
                           final_confidence>>
       ELSE \E cv \in HeuristicVerdicts(service) :
                /\ cv_analysis' = <<cv>>
                /\ vlm_analysis' = <<>>
                /\ final_is_repair' = cv.is_repair
                /\ final_confidence' = cv.confidence
                /\ pc' = IF VlmActive(vlm_service) THEN "vlm" ELSE "append"
                /\ UNCHANGED idx
    /\ UNCHANGED <<service, api_key, vlm_init_raises, vlm_service, width,
                   height, contours, changed_regions, filtered_regions,
                   defect_detections, total_repair_score, result, vlm_calls>>
    /\ UNCHANGED <<mergeVars, analyzeVars, fnVars>>

\* "vlm_analysis = self.vlm_service.analyze_defect_region(...)" and the block
\* under it that settles final_is_repair and final_confidence
VerifyWithVlm ==
    /\ pc = "vlm"
    /\ \E vlm \in analyze_defect_region(vlm_service = "enabled") :
           LET fused == Fuse(cv_analysis[1], vlm)
           IN  /\ vlm_analysis' = <<vlm>>
               /\ final_is_repair' = fused.is_repair
               /\ final_confidence' = fused.confidence
    /\ vlm_calls' = IF vlm_service = "enabled" THEN vlm_calls + 1 ELSE vlm_calls
    /\ pc' = "append"
    /\ UNCHANGED <<service, api_key, vlm_init_raises, vlm_service, width,
                   height, contours, changed_regions, filtered_regions, idx,
                   cv_analysis, defect_detections, total_repair_score, result>>
    /\ UNCHANGED <<mergeVars, analyzeVars, fnVars>>

\* "defect_detections.append(detection)" and the running repair score; the
\* 'indicators' and 'area_percentage' entries are not kept
AppendDetection ==
    /\ pc = "append"
    /\ defect_detections' =
           Append(defect_detections,
                  [region_id |-> idx,
                   bbox |-> filtered_regions[idx].bbox,
                   area |-> filtered_regions[idx].area,
                   is_repair |-> final_is_repair,
                   repair_confidence |-> final_confidence,
                   repair_score |-> cv_analysis[1].repair_score,
                   vlm_analysis |-> vlm_analysis])
    /\ total_repair_score' =
           IF Truthy(final_is_repair)
           THEN total_repair_score + cv_analysis[1].repair_score
           ELSE total_repair_score
    /\ idx' = idx + 1
    /\ pc' = "loop"
    /\ UNCHANGED <<service, api_key, vlm_init_raises, vlm_service, width,
                   height, contours, changed_regions, filtered_regions,
                   cv_analysis, vlm_analysis, final_is_repair,
                   final_confidence, result, vlm_calls>>
    /\ UNCHANGED <<mergeVars, analyzeVars, fnVars>>

\* "Overall assessment": the returned dictionary.  confidence is in 1/1000:
\* min(total_repair_score / (total_regions * 100), 1.0)
Assess ==
    /\ pc = "loop"
    /\ idx > Len(TopRegions(filtered_regions))
    /\ LET repaired_count == RepairedCount(defect_detections)
           total_regions == Len(defect_detections)
           overall_confidence ==
               IF total_regions > 0
               THEN (total_repair_score * 10) \div total_regions
               ELSE 0
       IN  result' =
               <<[status |-> IF repaired_count > 0 THEN "PASS" ELSE "FAIL",
                  confidence |-> Min(overall_confidence, 1000),
                  detected_changes |-> total_regions,
                  verified_repairs |-> repaired_count,
                  defect_detections |-> defect_detections,
                  summary |-> _generate_summary(repaired_count, total_regions),
                  vlm_enabled |-> VlmActive(vlm_service)]>>
    /\ pc' = "done"
    /\ UNCHANGED <<service, api_key, vlm_init_raises, vlm_service, width,
                   height, contours, changed_regions, filtered_regions, idx,
                   cv_analysis, vlm_analysis, final_is_repair,
                   final_confidence, defect_detections, total_repair_score,
                   vlm_calls>>
    /\ UNCHANGED <<mergeVars, analyzeVars, fnVars>>

Next ==
    \/ FindDifferences
    \/ AreaFilter
    \/ ScoreRegion
    \/ VerifyWithVlm
    \/ AppendDetection
    \/ Assess

Spec == Init /\ [][Next]_vars

-----------------------------------------------------------------------------
(* The scorers called on their own, on a region pair and on a second pair  *)
(* that differs from it in rust_reduction only                             *)

\* measurements on both sides of every threshold of the two scorers
ScoreRust == {-3, 5, 6, 8, 9}

ScoreBrightness == {0, 6, 9}

ScoreUniformity == {0, 1, 3}

ScoreEdge == {0, 15, 25}

ScoreMeasurements ==
    [rust_reduction : ScoreRust, brightness_increase : ScoreBrightness,
     uniformity_improvement : ScoreUniformity, edge_reduction : ScoreEdge,
     feature_distance : FeatureDistances,
     perceptual_similarity : PerceptualSimilarities]

\* the indicators analyze_repair_quality computes
CvIndicators(ind) ==
    [rust_reduction |-> ind.rust_reduction,
     brightness_increase |-> ind.brightness_increase,
     uniformity_improvement |-> ind.uniformity_improvement,
     edge_reduction |-> ind.edge_reduction]

\* the scorer of a service on the measurements of a region pair
Scorer(svc, ind, deep_ok) ==
    IF svc = "cv" THEN analyze_repair_quality(CvIndicators(ind))
    ELSE analyze_repair_quality_deep(ind, deep_ok)

InitScore ==
    /\ MergeIdle
    /\ DetectIdle
    /\ AnalyzeIdle
    /\ f_pc = "call"
    /\ f_in \in [scorer : {"cv", "deep"}, ind : ScoreMeasurements,
                 deep_ok : BOOLEAN, other_rust : ScoreRust]
    /\ f_out = <<>>

\* "cv_analysis = self.analyze_repair_quality(before_region, after_region)"
\* or "deep_analysis = self.analyze_repair_quality_deep(...)", on both pairs
ScorePairs ==
    /\ f_pc = "call"
    /\ f_out' =
           <<[first |-> Scorer(f_in.scorer, f_in.ind, f_in.deep_ok),
              second |->
                  Scorer(f_in.scorer,
                         [f_in.ind EXCEPT !.rust_reduction = f_in.other_rust],
                         f_in.deep_ok)]>>
    /\ f_pc' = "return"
    /\ UNCHANGED f_in
    /\ UNCHANGED <<mergeVars, detectVars, analyzeVars>>

NextScore == ScorePairs

SpecScore == InitScore /\ [][NextScore]_vars

-----------------------------------------------------------------------------
(* The selection of the regions detect_and_verify scores: find_differences *)
(* or detect_changes_deep, the area filter and the cap, on a call with     *)
(* more contours than the cap                                              *)

\* most contours of such a call
MaxSelectRegions == 6

\* the image size (width, height) of such a call
SelectSize == <<3000, 200>>

\* the contours position i of the contour list can hold: a large one first
\* (25% or exactly 30% of the image), then small ones 100 pixels apart
\* (exactly 0.5% of the image, or more)
SelectSlot(i) ==
    IF i = 1
    THEN {Region(Box(0, 0, 1000, 200), a) : a \in {150000, 180000}}
    ELSE {Region(Box(900 + 200 * i - 200, 0, 1000 + 200 * i - 200, 200), a) :
              a \in {3000, 4000, 5000}}

\* the contour lists of length n: one contour of each position's pool
RECURSIVE SelectPrefixes(_)
SelectPrefixes(n) ==
    IF n = 0 THEN {<<>>}
    ELSE {Append(c, r) : c \in SelectPrefixes(n - 1), r \in SelectSlot(n)}

\* the contour lists of a call: every length up to the bound
SelectContours == UNION {SelectPrefixes(n) : n \in 0..MaxSelectRegions}

\* the service is constructed without a VLM service, the images are
\* preprocessed, and the difference mask has its contours
InitSelect ==
    /\ MergeIdle
    /\ AnalyzeIdle
    /\ FnIdle
    /\ service \in {"cv", "deep"}
    /\ api_key = FALSE
    /\ vlm_init_raises = FALSE
    /\ vlm_service = ServiceVlm(api_key, vlm_init_raises)
    /\ width = SelectSize[1]
    /\ height = SelectSize[2]
    /\ contours \in SelectContours
    /\ pc = "find_differences"
    /\ changed_regions = <<>>
    /\ filtered_regions = <<>>
    /\ idx = 0
    /\ cv_analysis = <<>>
    /\ vlm_analysis = <<>>
    /\ final_is_repair = "False"
    /\ final_confidence = 0
    /\ defect_detections = <<>>
    /\ total_repair_score = 0
    /\ result = <<>>
    /\ vlm_calls = 0

\* up to the head of "for idx, region in enumerate(filtered_regions[:5])"
NextSelect == FindDifferences \/ AreaFilter

SpecSelect == InitSelect /\ [][NextSelect]_vars

-----------------------------------------------------------------------------
(* POST /analyze of main.py, from STEP 2 on. Percentages are whole numbers, *)
(* pixel counts are integers; feature distances, similarities, confidences *)
(* and best_confidence are in 1/10000 (5.0 is 50000, -1 is -10000). The raw *)
(* cosine similarity, before it is rounded to 4 places, is in 1/100000.     *)

\* most before frames of a request
MaxBefore == 2

\* most after frames of a request
MaxAfter == 2

\* int(): truncation toward zero of a / b, b > 0
TruncDiv(a, b) == IF a >= 0 THEN a \div b ELSE -((-a) \div b)

\* round(): a / q to the nearest integer, halves to the even one, q > 0
RoundDiv(a, q) ==
    LET fl == a \div q
        r  == a - fl * q
    IN  IF 2 * r < q THEN fl
        ELSE IF 2 * r > q THEN fl + 1
        ELSE IF fl % 2 = 0 THEN fl ELSE fl + 1

\* dict.get(key, default)
Get(rec, key, default) == IF key \in DOMAIN rec THEN rec[key] ELSE default

\* "x1 = int((x_pct / 100) * img_width)" ... "x1 = max(0, min(x1, img_width))"
convert_bbox_percent_to_pixels(bbox_percent, img_width, img_height) ==
    LET x1 == TruncDiv(bbox_percent[1] * img_width, 100)
        y1 == TruncDiv(bbox_percent[2] * img_height, 100)
        x2 == TruncDiv((bbox_percent[1] + bbox_percent[3]) * img_width, 100)
        y2 == TruncDiv((bbox_percent[2] + bbox_percent[4]) * img_height, 100)
    IN  <<Max(0, Min(x1, img_width)), Max(0, Min(y1, img_height)),
          Max(0, Min(x2, img_width)), Max(0, Min(y2, img_height))>>

\* "before_region.size" of before["cv"][y1:y2, x1:x2]; after_region has the
\* same size, the after image being resized to the before image's dimensions
RegionSize(bbox_pixels, img_width, img_height) ==
    SliceSize(Box(bbox_pixels[1], bbox_pixels[2], bbox_pixels[3],
                  bbox_pixels[4]), img_width, img_height)

\* "FIXED_THRESHOLD = 5.0"
FIXED_THRESHOLD == 50000

\* "SAME_THRESHOLD = 0.85", on the raw similarity
SAME_THRESHOLD == 85000

\* the verdict of the ResNet comparison for a feature distance
phase2_verify_repair(distance) ==
    LET is_fixed == distance > FIXED_THRESHOLD
    IN  [is_fixed |-> is_fixed,
         confidence |-> 100 * RoundDiv(Min(distance, 100000), 1000),
         feature_distance |-> 100 * RoundDiv(distance, 100),
         verdict |-> IF is_fixed THEN "FIXED" ELSE "NOT_FIXED",
         method |-> "resnet"]

\* the verdict of the video mode: CLIP on the raw cosine similarity, or the
\* ResNet comparison when CLIP is not available
phase2_verify_repair_video(clip_ok, measure) ==
    IF ~clip_ok
    THEN phase2_verify_repair(measure)
    ELSE LET is_fixed == measure < SAME_THRESHOLD
             confidence == IF is_fixed THEN 100000 - measure ELSE measure
         IN  [is_fixed |-> is_fixed,
              confidence |-> 100 * RoundDiv(confidence, 1000),
              similarity |-> RoundDiv(measure, 10),
              verdict |-> IF is_fixed THEN "FIXED" ELSE "NOT_FIXED",
              method |-> "clip"]

\* "if after_had_video: ... else: ..."
Phase2(had_video, clip_ok, measure) ==
    IF had_video
    THEN phase2_verify_repair_video(clip_ok, measure)
    ELSE phase2_verify_repair(measure)

\* feature distances of a ResNet comparison: 0.2, 4.5, 6.0, 12.3456
Distances == {2000, 45000, 60000, 123456}

\* raw cosine similarities of a CLIP comparison: 0.9, 0.95004, 0.5, -0.2
Similarities == {90000, 95004, 50000, -20000}

\* what the body of the try block does for one after image: it raises, or
\* the comparison measures a distance or a similarity
CompareOutcomes(use_clip) ==
    {[raises |-> TRUE, measure |-> 0]}
    \cup {[raises |-> FALSE, measure |-> m] :
              m \in IF use_clip THEN Similarities ELSE Distances}

\* TrackBest with a fallback that keeps the first verdict that is not fixed
TrackBestKeepsFirst(best, res, after_index) ==
    LET kept == [best_result |-> <<res>>,
                 best_after_idx |-> after_index]
    IN  IF res.is_fixed
        THEN IF res.confidence > best.best_confidence
             THEN kept @@ [best_confidence |-> res.confidence]
             ELSE best
        ELSE IF best.best_result = <<>>
             THEN kept @@ [best_confidence |->
                               Get(res, "feature_distance",
                                   Get(res, "similarity", 0))]
             ELSE best

\* TrackBest with the position in the loop counted from 1 as the index
TrackBestOneBased(best, res, after_index) ==
    LET kept == [best_result |-> <<res>>,
                 best_after_idx |-> after_index + 1]
    IN  IF res.is_fixed
        THEN IF res.confidence > best.best_confidence
             THEN kept @@ [best_confidence |-> res.confidence]
             ELSE best
        ELSE IF best.best_result = <<>>
                \/ ~Get(best.best_result[1], "is_fixed", FALSE)
             THEN LET score ==
                          Get(res, "feature_distance",
                              Get(res, "similarity", 0))
                  IN  IF score > best.best_confidence
                      THEN kept @@ [best_confidence |-> score]
                      ELSE best
             ELSE best

\* TrackBest with ">=" for the verdicts that are fixed
TrackBestTiesLatest(best, res, after_index) ==
    LET kept == [best_result |-> <<res>>,
                 best_after_idx |-> after_index]
    IN  IF res.is_fixed
        THEN IF res.confidence >= best.best_confidence
             THEN kept @@ [best_confidence |-> res.confidence]
             ELSE best
        ELSE IF best.best_result = <<>>
                \/ ~Get(best.best_result[1], "is_fixed", FALSE)
             THEN LET score ==
                          Get(res, "feature_distance",
                              Get(res, "similarity", 0))
                  IN  IF score > best.best_confidence
                      THEN kept @@ [best_confidence |-> score]
                      ELSE best
             ELSE best

\* "Track best result": the kept verdict, its score and its after index
\* after one more verdict
TrackBest(best, res, after_index) ==
    LET kept == [best_result |-> <<res>>,
                 best_after_idx |-> after_index]
    IN  IF res.is_fixed
        THEN IF res.confidence > best.best_confidence
             THEN kept @@ [best_confidence |-> res.confidence]
             ELSE best
        ELSE IF best.best_result = <<>>
                \/ ~Get(best.best_result[1], "is_fixed", FALSE)
             THEN LET score ==
                          Get(res, "feature_distance",
                              Get(res, "similarity", 0))
                  IN  IF score > best.best_confidence
                      THEN kept @@ [best_confidence |-> score]
                      ELSE best
             ELSE best

\* "best_result = None", "best_confidence = -1", "best_after_idx = None"
NoBest ==
    [best_result |-> <<>>, best_confidence |-> -10000, best_after_idx |-> -1]

-----------------------------------------------------------------------------
(* convert_bbox_percent_to_pixels called on its own                        *)

\* percentages of a bounding box: negative, in range and above 100
XPercents == {-10, 0, 25, 37, 50, 90, 100, 120}

WidthPercents == {-20, 0, 6, 30, 50}

YPercents == {0, 37, 90}

HeightPercents == {-20, 6, 30}

\* image sizes (width, height) of the conversion
BboxImageSizes == {<<200, 100>>, <<10, 10>>}

InitBbox ==
    /\ MergeIdle
    /\ DetectIdle
    /\ AnalyzeIdle
    /\ f_pc = "call"
    /\ \E x \in XPercents, y \in YPercents, w \in WidthPercents,
          h \in HeightPercents, size \in BboxImageSizes :
           f_in = [bbox_percent |-> <<x, y, w, h>>,
                   img_width |-> size[1], img_height |-> size[2]]
    /\ f_out = <<>>

\* "bbox_pixels = convert_bbox_percent_to_pixels(bbox_percent, ...)"
ConvertBbox ==
    /\ f_pc = "call"
    /\ f_out' = <<convert_bbox_percent_to_pixels(f_in.bbox_percent,
                                                 f_in.img_width,
                                                 f_in.img_height)>>
    /\ f_pc' = "return"
    /\ UNCHANGED f_in
    /\ UNCHANGED <<mergeVars, detectVars, analyzeVars>>

NextBbox == ConvertBbox

SpecBbox == InitBbox /\ [][NextBbox]_vars

-----------------------------------------------------------------------------
(* STEP 1.5 of analyze: the after frames are filtered to those that match  *)
(* a before frame. A frame is named by its content (PIL images compare by  *)
(* content); similarities are in 1/10000.                                  *)

\* most after frames of the request
MaxVideoFrames == 5

\* "threshold=0.4" of the call in analyze
FRAME_THRESHOLD == 4000

\* contents of the after frames
FrameContents == {"a", "b", "c"}

\* values of compute_image_similarity: just below the threshold, and at it
FrameSimilarities == {3999, 4000}

\* filter_matching_frames with "similarity > threshold"
filter_matching_frames_above(reference, frames, similarity, threshold) ==
    SelectSeq(frames, LAMBDA frame : similarity[reference][frame] > threshold)

\* filter_matching_frames; similarity[reference][frame] is what
\* compute_image_similarity(reference_img, frame) returns
filter_matching_frames(reference, frames, similarity, threshold) ==
    SelectSeq(frames, LAMBDA frame : similarity[reference][frame] >= threshold)

\* "for frame in matching: if frame not in filtered_after_frames: append"
RECURSIVE AppendNew(_, _)
AppendNew(filtered, matching) ==
    IF matching = <<>> THEN filtered
    ELSE AppendNew(IF \E k \in 1..Len(filtered) : filtered[k] = Head(matching)
                   THEN filtered
                   ELSE Append(filtered, Head(matching)),
                   Tail(matching))

\* "for before_frame in all_before_frames", from the before frame b on
RECURSIVE FilteredAfterFrames(_, _, _, _, _)
FilteredAfterFrames(b, n_before, frames, similarity, filtered) ==
    IF b > n_before THEN filtered
    ELSE FilteredAfterFrames(
             b + 1, n_before, frames, similarity,
             AppendNew(filtered,
                       filter_matching_frames(b, frames, similarity,
                                              FRAME_THRESHOLD)))

\* all_after_frames after STEP 1.5
FilterStep(had_video, n_before, frames, similarity) ==
    IF had_video /\ n_before > 0
    THEN LET filtered_after_frames ==
                 FilteredAfterFrames(1, n_before, frames, similarity, <<>>)
         IN  IF filtered_after_frames # <<>>
             THEN filtered_after_frames
             ELSE frames
    ELSE frames

\* the uploads are processed: there is at least one before frame and one
\* after frame
InitFrames ==
    /\ MergeIdle
    /\ DetectIdle
    /\ AnalyzeIdle
    /\ f_pc = "call"
    /\ \E had_video \in BOOLEAN, n_before \in 1..2,
          frames \in SeqsUpTo(FrameContents, MaxVideoFrames) :
           /\ frames # <<>>
           /\ \E similarity \in
                  [1..n_before -> [FrameContents -> FrameSimilarities]] :
                  f_in = [after_had_video |-> had_video,
                          n_before |-> n_before,
                          all_after_frames |-> frames,
                          similarity |-> similarity]
    /\ f_out = <<>>

\* "STEP 1.5: If we have video frames, filter to only frames that match"
FilterFrames ==
    /\ f_pc = "call"
    /\ f_out' = <<FilterStep(f_in.after_had_video, f_in.n_before,
                             f_in.all_after_frames, f_in.similarity)>>
    /\ f_pc' = "return"
    /\ UNCHANGED f_in
    /\ UNCHANGED <<mergeVars, detectVars, analyzeVars>>

NextFrames == FilterFrames

SpecFrames == InitFrames /\ [][NextFrames]_vars

-----------------------------------------------------------------------------
(* The head of /analyze: the uploads are processed (STEP 1), the frames    *)
(* filtered (STEP 1.5) and after_data built                                *)

\* most uploads in after_images
MaxAfterUploads == 2

\* most frames extract_frames_from_video gives in the model
MaxUploadFrames == 2

\* contents of the images and frames of the uploads
UploadContents == {"a", "b"}

\* an upload, by what the library calls do with it: whether its name or
\* content type is that of a video, whether Image.open succeeds (and the
\* image it gives), whether extract_frames_from_video raises, and the frames
\* it returns otherwise
Upload(is_video, opens, image, extract_raises, frames) ==
    [is_video |-> is_video, opens |-> opens, image |-> image,
     extract_raises |-> extract_raises, frames |-> frames]

\* the uploads of after_images: images that open, and videos or files that
\* do not open as images, whose extraction raises or gives zero or more
\* frames
AfterUploads ==
    {Upload(FALSE, TRUE, c, FALSE, <<>>) : c \in UploadContents}
    \cup {Upload(v, FALSE, "", TRUE, <<>>) : v \in BOOLEAN}
    \cup {Upload(v, FALSE, "", FALSE, fs) :
              v \in BOOLEAN, fs \in SeqsUpTo(UploadContents, MaxUploadFrames)}

\* the uploads of before_images
BeforeUploads ==
    {Upload(FALSE, TRUE, "a", FALSE, <<>>),
     Upload(TRUE, FALSE, "", FALSE, <<>>),
     Upload(TRUE, FALSE, "", FALSE, <<"a", "b">>)}

\* process_upload without "if not frames: raise HTTPException(...)"
process_upload_keeps_empty(upload) ==
    IF upload.is_video
    THEN IF upload.extract_raises
         THEN [raises |-> "Exception", frames |-> <<>>, media_type |-> ""]
         ELSE [raises |-> "", frames |-> upload.frames,
               media_type |-> "video"]
    ELSE IF upload.opens
    THEN [raises |-> "", frames |-> <<upload.image>>, media_type |-> "image"]
    ELSE IF upload.extract_raises
    THEN [raises |-> "Exception", frames |-> <<>>, media_type |-> ""]
    ELSE IF upload.frames # <<>>
    THEN [raises |-> "", frames |-> upload.frames, media_type |-> "video"]
    ELSE [raises |-> "HTTPException", frames |-> <<>>, media_type |-> ""]

\* process_upload: the frames and the media type, or the exception that
\* leaves it (the HTTPException it raises, or what
\* extract_frames_from_video raised)
process_upload(upload) ==
    IF upload.is_video
    THEN IF upload.extract_raises
         THEN [raises |-> "Exception", frames |-> <<>>, media_type |-> ""]
         ELSE IF upload.frames = <<>>
         THEN [raises |-> "HTTPException", frames |-> <<>>, media_type |-> ""]
         ELSE [raises |-> "", frames |-> upload.frames,
               media_type |-> "video"]
    ELSE IF upload.opens
    THEN [raises |-> "", frames |-> <<upload.image>>, media_type |-> "image"]
    ELSE IF upload.extract_raises
    THEN [raises |-> "Exception", frames |-> <<>>, media_type |-> ""]
    ELSE IF upload.frames # <<>>
    THEN [raises |-> "", frames |-> upload.frames, media_type |-> "video"]
    ELSE [raises |-> "HTTPException", frames |-> <<>>, media_type |-> ""]

\* "for i, upload in enumerate(...)": the frames of all uploads in order and
\* whether one of them was a video, or the first exception
RECURSIVE ProcessUploads(_, _)
ProcessUploads(uploads, acc) ==
    IF uploads = <<>> THEN acc
    ELSE LET processed == process_upload(Head(uploads))
         IN  IF processed.raises # ""
             THEN [acc EXCEPT !.raises = processed.raises]
             ELSE ProcessUploads(
                      Tail(uploads),
                      [raises |-> "",
                       frames |-> acc.frames \o processed.frames,
                       had_video |-> (acc.had_video
                                        \/ processed.media_type = "video")])

NoFrames == [raises |-> "", frames |-> <<>>, had_video |-> FALSE]

\* the request arrives with its two lists of uploads
InitUpload ==
    /\ MergeIdle
    /\ DetectIdle
    /\ AnalyzeIdle
    /\ f_pc = "uploads"
    /\ \E before_images \in SeqsUpTo(BeforeUploads, 1),
          after_images \in SeqsUpTo(AfterUploads, MaxAfterUploads) :
           f_in = [before_images |-> before_images,
                   after_images |-> after_images]
    /\ f_out = <<>>

\* the two tests of the list lengths and "STEP 1: Process all uploads": the
\* request is rejected, or the frames of both sides are collected
ProcessAllUploads ==
    /\ f_pc = "uploads"
    /\ IF Len(f_in.before_images) = 0 \/ Len(f_in.after_images) = 0
       THEN f_pc' = "rejected" /\ f_out' = <<"HTTPException">>
       ELSE LET before == ProcessUploads(f_in.before_images, NoFrames)
                after  == ProcessUploads(f_in.after_images, NoFrames)
            IN  IF before.raises # ""
                THEN f_pc' = "rejected" /\ f_out' = <<before.raises>>
                ELSE IF after.raises # ""
                THEN f_pc' = "rejected" /\ f_out' = <<after.raises>>
                ELSE /\ f_pc' = "filter"
                     /\ f_out' = <<[all_before_frames |-> before.frames,
                                    all_after_frames |-> after.frames,
                                    after_had_video |-> after.had_video]>>
    /\ UNCHANGED f_in
    /\ UNCHANGED <<mergeVars, detectVars, analyzeVars>>

\* "STEP 1.5" and "after_data = []; for i, pil_img in
\* enumerate(all_after_frames)": phase 1 is about to start
BuildAfterData ==
    /\ f_pc = "filter"
    /\ LET n_before_frames == Len(f_out[1].all_before_frames)
       IN  \E similarity \in
               [1..n_before_frames -> [FrameContents -> FrameSimilarities]] :
               f_out' =
                   <<[uploaded_after_frames |-> f_out[1].all_after_frames,
                      after_had_video |-> f_out[1].after_had_video,
                      similarity |-> similarity,
                      after_data |->
                          FilterStep(f_out[1].after_had_video,
                                     n_before_frames,
                                     f_out[1].all_after_frames,
                                     similarity)]>>
    /\ f_pc' = "phase1"
    /\ UNCHANGED f_in
    /\ UNCHANGED <<mergeVars, detectVars, analyzeVars>>

NextUpload == ProcessAllUploads \/ BuildAfterData

SpecUpload == InitUpload /\ [][NextUpload]_vars

-----------------------------------------------------------------------------
(* align_images, the same code in both services                            *)

\* what orb.detectAndCompute returns as descriptors: None (<<>>) for an image
\* without keypoints, otherwise the number of descriptors
Descriptors == {<<>>, <<5>>, <<20>>, <<30>>}

\* how many matches matcher.match can return with crossCheck=True: at most
\* one per descriptor of either image
MatchCounts(descriptors1, descriptors2) ==
    {n \in {0, 5, 19, 20, 21, 30} :
        n <= Min(descriptors1[1], descriptors2[1])}

\* what the OpenCV calls of align_images can do: the descriptors of the two
\* images, the number of matches, and whether cv2.findHomography finds a
\* matrix (it returns None as H when it cannot estimate one)
AlignOutcomes ==
    {[descriptors1 |-> d1, descriptors2 |-> d2, n_matches |-> 0,
      homography_found |-> FALSE] :
         d1 \in Descriptors, d2 \in {<<>>}}
    \cup {[descriptors1 |-> d1, descriptors2 |-> d2, n_matches |-> 0,
           homography_found |-> FALSE] :
              d1 \in {<<>>}, d2 \in Descriptors}
    \cup UNION {{[descriptors1 |-> d1, descriptors2 |-> d2, n_matches |-> n,
                  homography_found |-> h] :
                     n \in MatchCounts(d1, d2), h \in BOOLEAN} :
                d1 \in Descriptors \ {<<>>}, d2 \in Descriptors \ {<<>>}}

\* align_images: the image it returns ("img2" is the candidate as given,
\* "aligned_img2" the warped one), or the exception of cv2.warpPerspective
\* on H = None, which nothing catches
align_images(o) ==
    IF o.descriptors1 # <<>> /\ o.descriptors2 # <<>>
    THEN LET num_good_matches == o.n_matches \div 2
         IN  IF num_good_matches >= 10
             THEN IF o.homography_found
                  THEN [raises |-> FALSE, image |-> "aligned_img2"]
                  ELSE [raises |-> TRUE, image |-> None]
             ELSE [raises |-> FALSE, image |-> "img2"]
    ELSE [raises |-> FALSE, image |-> "img2"]

\* preprocess_images has converted the two images of either service
InitAlign ==
    /\ MergeIdle
    /\ DetectIdle
    /\ AnalyzeIdle
    /\ f_pc = "call"
    /\ \E svc \in {"cv", "deep"}, o \in AlignOutcomes :
           f_in = [service |-> svc, outcome |-> o]
    /\ f_out = <<>>

\* "cv_img2_aligned = self.align_images(cv_img1, cv_img2)"
AlignImages ==
    /\ f_pc = "call"
    /\ f_out' = <<align_images(f_in.outcome)>>
    /\ f_pc' = "return"
    /\ UNCHANGED f_in
    /\ UNCHANGED <<mergeVars, detectVars, analyzeVars>>

NextAlign == AlignImages

SpecAlign == InitAlign /\ [][NextAlign]_vars

-----------------------------------------------------------------------------
(* _parse_vlm_response on the provider's answers                           *)

\* the provider has answered with a text
InitParse ==
    /\ MergeIdle
    /\ DetectIdle
    /\ AnalyzeIdle
    /\ f_pc = "call"
    /\ f_in \in ResponseTexts
    /\ f_out = <<>>

\* "result = self._parse_vlm_response(analysis_text)"
ParseResponse ==
    /\ f_pc = "call"
    /\ f_out' = <<_parse_vlm_response(f_in)>>
    /\ f_pc' = "return"
    /\ UNCHANGED f_in
    /\ UNCHANGED <<mergeVars, detectVars, analyzeVars>>

NextParse == ParseResponse

SpecParse == InitParse /\ [][NextParse]_vars

-----------------------------------------------------------------------------
(* Phase 1: the defect proposer                                            *)

\* "LOCATION:" lines of a response, as the numbers parsed from them
Locations ==
    {<<100, 0, 10, 10>>, <<10, 20, 30>>}

\* what the call to the provider does: it raises, or it answers a text, of
\* which the model keeps whether it holds NO_DEFECT, the description after
\* "DEFECT:" (<<>> without such a line) and the numbers after "LOCATION:"
\* (<<>> without such a line, or when they do not parse)
Phase1Outcomes ==
    {[raises |-> TRUE, no_defect |-> FALSE, description |-> <<>>,
      location |-> <<>>]}
    \cup {[raises |-> FALSE, no_defect |-> n, description |-> d,
           location |-> l] :
              n \in BOOLEAN, d \in {<<>>, <<"">>, <<"crack">>},
              l \in {<<>>} \cup {<<loc>> : loc \in Locations}}

\* "bbox or [25, 25, 50, 50]" with bbox set only "if len(parts) >= 4"
BboxPercent(location) ==
    IF location # <<>> /\ Len(location[1]) >= 4
    THEN SubSeq(location[1], 1, 4)
    ELSE <<25, 25, 50, 50>>

phase1_detect_defect(outcome) ==
    IF outcome.raises
    THEN [has_defect |-> FALSE, error |-> "error"]
    ELSE IF outcome.no_defect
    THEN [has_defect |-> FALSE, description |-> "No defect found"]
    ELSE IF outcome.description # <<>> /\ outcome.description[1] # ""
    THEN [has_defect |-> TRUE,
          description |-> outcome.description[1],
          bbox_percent |-> BboxPercent(outcome.location)]
    ELSE [has_defect |-> FALSE,
          description |-> "Could not identify defect",
          raw_response |-> outcome]

\* the dictionary of phase1_detect_defect is that of its except branch, or
\* that of a response that names neither NO_DEFECT nor a defect
PropositionFailed(detection) ==
    \/ "error" \in DOMAIN detection
    \/ "raw_response" \in DOMAIN detection

-----------------------------------------------------------------------------
(* The request                                                             *)

\* sizes (width, height) of the before frames
FrameSizes == {<<200, 100>>}

\* "before_data.append({"index": i, ..., "width": ..., "height": ...})"
BeforeData(sizes) ==
    [i \in 1..Len(sizes) |->
        [index |-> i - 1, width |-> sizes[i][1], height |-> sizes[i][2]]]

\* "fixed_count = sum(1 for d in defect_results if
\*  d.get("phase2_deep_learning", {}).get("is_fixed", False))"
RECURSIVE FixedCount(_)
FixedCount(results) ==
    IF results = <<>> THEN 0
    ELSE FixedCount(SubSeq(results, 1, Len(results) - 1))
         + (IF Get(Get(results[Len(results)], "phase2_deep_learning", <<>>),
                   "is_fixed", FALSE)
            THEN 1 ELSE 0)

overall_verdict_any(fixed_count, total_defects) ==
    IF fixed_count > 0 THEN "FIXED" ELSE "NOT_FIXED"

\* "if fixed_count == total_defects: ... elif fixed_count > 0: ... else: ..."
overall_verdict(fixed_count, total_defects) ==
    IF fixed_count = total_defects THEN "FIXED"
    ELSE IF fixed_count > 0 THEN "PARTIAL"
    ELSE "NOT_FIXED"

\* the uploads are processed and the frames filtered: there is at least one
\* before frame and one after frame
InitAnalyze ==
    /\ MergeIdle
    /\ DetectIdle
    /\ FnIdle
    /\ a_pc = "phase1"
    /\ after_had_video \in BOOLEAN
    /\ clip_available \in BOOLEAN
    /\ \E sizes \in SeqsUpTo(FrameSizes, MaxBefore) :
           sizes # <<>> /\ before_data = BeforeData(sizes)
    /\ n_after \in 1..MaxAfter
    /\ b_idx = 1
    /\ detected_defects = <<>>
    /\ d_idx = 0
    /\ c_idx = 0
    /\ best_result = <<>>
    /\ best_confidence = 0
    /\ best_after_idx = -1
    /\ evaluated = {}
    /\ failed = {}
    /\ phase1_failed = FALSE
    /\ defect_results = <<>>
    /\ response = <<>>

\* one turn of "for before in before_data"
DetectDefect ==
    /\ a_pc = "phase1"
    /\ b_idx <= Len(before_data)
    /\ \E outcome \in Phase1Outcomes :
        LET detection == phase1_detect_defect(outcome)
            before    == before_data[b_idx]
        IN  /\ detected_defects' =
                IF Get(detection, "has_defect", FALSE)
                THEN Append(detected_defects,
                            [defect_id |-> Len(detected_defects),
                             before_image_idx |-> before.index,
                             description |-> detection.description,
                             bbox_percent |-> detection.bbox_percent,
                             before_data |-> before])
                ELSE detected_defects
            /\ phase1_failed' =
                   (phase1_failed \/ PropositionFailed(detection))
    /\ b_idx' = b_idx + 1
    /\ UNCHANGED <<a_pc, after_had_video, clip_available, before_data,
                   n_after, d_idx, c_idx, best_result, best_confidence,
                   best_after_idx, evaluated, failed, defect_results,
                   response>>
    /\ UNCHANGED <<mergeVars, detectVars, fnVars>>

\* "if not detected_defects: return {"verdict": "NO_DEFECT", ...}", or on to
\* "for defect in detected_defects"
AfterDetection ==
    /\ a_pc = "phase1"
    /\ b_idx > Len(before_data)
    /\ IF detected_defects = <<>>
       THEN /\ response' = <<[verdict |-> "NO_DEFECT",
                              fixed_count |-> 0,
                              total_defects |-> 0,
                              defects |-> <<>>]>>
            /\ a_pc' = "done"
            /\ d_idx' = d_idx
       ELSE /\ response' = response
            /\ a_pc' = "defect"
            /\ d_idx' = 1
    /\ UNCHANGED <<after_had_video, clip_available, before_data, n_after,
                   b_idx, detected_defects, c_idx, best_result,
                   best_confidence, best_after_idx, evaluated, failed,
                   phase1_failed, defect_results>>
    /\ UNCHANGED <<mergeVars, detectVars, fnVars>>

\* the head of one turn of "for defect in detected_defects"
BeginDefect ==
    /\ a_pc = "defect"
    /\ best_result' = NoBest.best_result
    /\ best_confidence' = NoBest.best_confidence
    /\ best_after_idx' = NoBest.best_after_idx
    /\ evaluated' = {}
    /\ failed' = {}
    /\ c_idx' = 1
    /\ a_pc' = "match"
    /\ UNCHANGED <<after_had_video, clip_available, before_data, n_after,
                   b_idx, detected_defects, d_idx, phase1_failed,
                   defect_results, response>>
    /\ UNCHANGED <<mergeVars, detectVars, fnVars>>

\* one turn of "for after in after_data", for the after image c_idx - 1
CompareCandidate ==
    /\ a_pc = "match"
    /\ c_idx <= n_after
    /\ LET defect == detected_defects[d_idx]
           before == defect.before_data
           bbox_pixels ==
               convert_bbox_percent_to_pixels(defect.bbox_percent,
                                              before.width, before.height)
       IN  \E outcome \in CompareOutcomes(after_had_video /\ clip_available) :
             IF outcome.raises
                \/ RegionSize(bbox_pixels, before.width, before.height) = 0
             THEN /\ failed' = IF outcome.raises
                               THEN failed \cup {c_idx - 1}
                               ELSE failed
                  /\ UNCHANGED <<best_result, best_confidence,
                                 best_after_idx, evaluated>>
             ELSE LET res == Phase2(after_had_video, clip_available,
                                    outcome.measure)
                      best == TrackBest(
                                  [best_result |-> best_result,
                                   best_confidence |-> best_confidence,
                                   best_after_idx |-> best_after_idx],
                                  res, c_idx - 1)
                  IN  /\ best_result' = best.best_result
                      /\ best_confidence' = best.best_confidence
                      /\ best_after_idx' = best.best_after_idx
                      /\ evaluated' = evaluated \cup {res}
                      /\ failed' = failed
    /\ c_idx' = c_idx + 1
    /\ UNCHANGED <<a_pc, after_had_video, clip_available, before_data,
                   n_after, b_idx, detected_defects, d_idx, phase1_failed,
                   defect_results, response>>
    /\ UNCHANGED <<mergeVars, detectVars, fnVars>>

\* DefectResult without the else branch: an entry of status "success" also
\* when no verdict was kept
DefectResultAlwaysSuccess(defect, best, after_idx) ==
    LET kept == IF best # <<>> THEN best[1] ELSE <<>>
    IN  [defect_id |-> defect.defect_id,
         status |-> "success",
         description |-> defect.description,
         before_image_idx |-> defect.before_image_idx,
         best_after_image_idx |-> after_idx,
         bbox |-> [x |-> defect.bbox_percent[1],
                   y |-> defect.bbox_percent[2],
                   width |-> defect.bbox_percent[3],
                   height |-> defect.bbox_percent[4]],
         phase2_deep_learning |->
             [verdict |-> Get(kept, "verdict", "NOT_FIXED"),
              is_fixed |-> Get(kept, "is_fixed", FALSE),
              confidence |-> Get(kept, "confidence", 0),
              feature_distance |-> Get(kept, "feature_distance", 0),
              similarity |-> Get(kept, "similarity", 0),
              method |-> Get(kept, "method", "unknown")]]

\* "Build result for this defect"
DefectResult(defect, best, after_idx) ==
    IF best # <<>>
    THEN [defect_id |-> defect.defect_id,
          status |-> "success",
          description |-> defect.description,
          before_image_idx |-> defect.before_image_idx,
          best_after_image_idx |-> after_idx,
          bbox |-> [x |-> defect.bbox_percent[1],
                    y |-> defect.bbox_percent[2],
                    width |-> defect.bbox_percent[3],
                    height |-> defect.bbox_percent[4]],
          phase2_deep_learning |->
              [verdict |-> best[1].verdict,
               is_fixed |-> best[1].is_fixed,
               confidence |-> best[1].confidence,
               feature_distance |-> Get(best[1], "feature_distance", 0),
               similarity |-> Get(best[1], "similarity", 0),
               method |-> Get(best[1], "method", "unknown")]]
    ELSE [defect_id |-> defect.defect_id,
          status |-> "error",
          description |-> defect.description,
          before_image_idx |-> defect.before_image_idx,
          message |-> "Could not verify repair for this defect"]

\* the candidates of the defect are exhausted: its entry is appended
BuildResult ==
    /\ a_pc = "match"
    /\ c_idx > n_after
    /\ defect_results' =
           Append(defect_results,
                  DefectResult(detected_defects[d_idx], best_result,
                               best_after_idx))
    /\ d_idx' = d_idx + 1
    /\ a_pc' = IF d_idx < Len(detected_defects) THEN "defect" ELSE "aggregate"
    /\ UNCHANGED <<after_had_video, clip_available, before_data, n_after,
                   b_idx, detected_defects, c_idx, best_result,
                   best_confidence, best_after_idx, evaluated, failed,
                   phase1_failed, response>>
    /\ UNCHANGED <<mergeVars, detectVars, fnVars>>

\* "STEP 4: Calculate overall verdict" and the response
Aggregate ==
    /\ a_pc = "aggregate"
    /\ LET fixed_count   == FixedCount(defect_results)
           total_defects == Len(defect_results)
       IN  response' =
               <<[verdict |-> overall_verdict(fixed_count, total_defects),
                  fixed_count |-> fixed_count,
                  total_defects |-> total_defects,
                  defects |-> defect_results]>>
    /\ a_pc' = "done"
    /\ UNCHANGED <<after_had_video, clip_available, before_data, n_after,
                   b_idx, detected_defects, d_idx, c_idx, best_result,
                   best_confidence, best_after_idx, evaluated, failed,
                   phase1_failed, defect_results>>
    /\ UNCHANGED <<mergeVars, detectVars, fnVars>>

NextAnalyze ==
    \/ DetectDefect
    \/ AfterDetection
    \/ BeginDefect
    \/ CompareCandidate
    \/ BuildResult
    \/ Aggregate

SpecAnalyze == InitAnalyze /\ [][NextAnalyze]_vars

-----------------------------------------------------------------------------
(* Claims about the fusion of the heuristic and the external verdict       *)

\* a region's verdict is settled: scored, fused, and about to be or already
\* appended (cv_analysis and vlm_analysis are those of the last scored region)
Settled == pc \in {"append", "loop", "done"} /\ cv_analysis # <<>>

\* the final verdict of the last scored region, as appended to
\* defect_detections once it is there
ReportedVerdict ==
    IF pc = "append"
    THEN [is_repair |-> final_is_repair, confidence |-> final_confidence]
    ELSE [is_repair |-> defect_detections[Len(defect_detections)].is_repair,
          confidence |->
              defect_detections[Len(defect_detections)].repair_confidence]

HeuristicVerdict ==
    [is_repair |-> cv_analysis[1].is_repair,
     confidence |-> cv_analysis[1].confidence]

\* the VLM service returned a parsed verdict for the last scored region
ExternalAvailable ==
    /\ vlm_analysis # <<>>
    /\ vlm_analysis[1].vlm_enabled
    /\ vlm_analysis[1].verdict # "ERROR"

\* the call to the provider failed for the last scored region
ExternalFailed ==
    /\ vlm_analysis # <<>>
    /\ vlm_analysis[1].vlm_enabled
    /\ vlm_analysis[1].verdict = "ERROR"

\* C1: an external verdict with confidence above 0.6 replaces the heuristic
\* one: the region's final is_repair and confidence are the external ones
C1_FusionOverride ==
    (Settled /\ ExternalAvailable /\ vlm_analysis[1].confidence > 600) =>
        /\ ReportedVerdict.is_repair = vlm_analysis[1].is_repair
        /\ ReportedVerdict.confidence = vlm_analysis[1].confidence

\* a heuristic "not a repair" overridden by a confident external "repaired",
\* in the returned result
C1_Witness ==
    /\ pc = "done"
    /\ Settled
    /\ ExternalAvailable
    /\ vlm_analysis[1].confidence > 600
    /\ vlm_analysis[1].is_repair = "True"
    /\ cv_analysis[1].is_repair = "False"
    /\ result[1].defect_detections[1].is_repair = "True"
    /\ result[1].verified_repairs = 1

\* C2: an external verdict with confidence at most 0.6 never changes
\* is_repair; it halves the heuristic confidence when it says not repaired
\* and leaves it unchanged when it says repaired
C2_WeakExternalOnlyDampens ==
    (Settled /\ ExternalAvailable /\ vlm_analysis[1].confidence <= 600) =>
        /\ ReportedVerdict.is_repair = cv_analysis[1].is_repair
        /\ vlm_analysis[1].is_repair = "False" =>
               2 * ReportedVerdict.confidence = cv_analysis[1].confidence
        /\ vlm_analysis[1].is_repair = "True" =>
               ReportedVerdict.confidence = cv_analysis[1].confidence

\* a heuristic repair of non-zero confidence, dampened by a weak external
\* "not repaired", in the returned result
C2_Witness ==
    /\ pc = "done"
    /\ Settled
    /\ ExternalAvailable
    /\ vlm_analysis[1].confidence <= 600
    /\ vlm_analysis[1].is_repair = "False"
    /\ cv_analysis[1].is_repair = "True"
    /\ cv_analysis[1].confidence > 0
    /\ result[1].defect_detections[1].is_repair = "True"
    /\ 2 * result[1].defect_detections[1].repair_confidence
           = cv_analysis[1].confidence

\* C3: when the call to the provider fails, the region's final verdict is
\* the heuristic verdict, is_repair and confidence both
C3_ProviderFailureKeepsHeuristic ==
    (Settled /\ ExternalFailed) => ReportedVerdict = HeuristicVerdict

\* C4: without an API key, or when the construction of the VLM service
\* failed, no request goes to the provider, no VLM dictionary is attached,
\* and every region's final verdict is the heuristic verdict
C4_NoExternalVerdict ==
    (~api_key \/ vlm_init_raises) =>
        /\ vlm_calls = 0
        /\ Settled => (vlm_analysis = <<>> /\ ReportedVerdict = HeuristicVerdict)

\* a result returned without an API key, holding a region scored a repair
C4_Witness ==
    /\ pc = "done"
    /\ ~api_key
    /\ Settled
    /\ cv_analysis[1].is_repair = "True"
    /\ result[1].detected_changes = 1
    /\ result[1].verified_repairs = 1

-----------------------------------------------------------------------------
(* Claims about merge_nearby_boxes *)

\* two boxes share interior points
BoxesIntersect(a, b) ==
    /\ a.x1 < b.x2 /\ b.x1 < a.x2
    /\ a.y1 < b.y2 /\ b.y1 < a.y2

\* C9: merging the result of merge_nearby_boxes again returns the same list
\* (same boxes, same areas, same order)
C9_MergeIdempotent ==
    m_pc = "remerged" => m_twice = m_once

\* C10: no two boxes returned by one call of merge_nearby_boxes intersect
C10_MergedBoxesDisjoint ==
    m_pc = "merged" =>
        \A i, j \in 1..Len(m_once) :
            i < j => ~BoxesIntersect(m_once[i].bbox, m_once[j].bbox)

-----------------------------------------------------------------------------
(* Claims about /analyze                                                   *)

\* the entry of a defect has just been built: evaluated, best_result and
\* best_after_idx are those of the defect of the last entry
EntryBuilt == a_pc \in {"defect", "aggregate", "done"} /\ defect_results # <<>>

LastEntry == defect_results[Len(defect_results)]

\* the verdicts of the defect that have is_fixed = true
FixedSeen == {v \in evaluated : v.is_fixed}

\* the raw signal of a verdict
Signal(v) == Get(v, "feature_distance", Get(v, "similarity", 0))

\* the entry reports the verdict v
Reports(entry, v) ==
    /\ entry.status = "success"
    /\ entry.phase2_deep_learning.is_fixed = v.is_fixed
    /\ entry.phase2_deep_learning.verdict = v.verdict
    /\ entry.phase2_deep_learning.confidence = v.confidence
    /\ entry.phase2_deep_learning.feature_distance
           = Get(v, "feature_distance", 0)
    /\ entry.phase2_deep_learning.similarity = Get(v, "similarity", 0)

\* C5: when at least one candidate of a defect gave a verdict with
\* is_fixed = true, the verdict kept for the defect has is_fixed = true and
\* the highest confidence among the is_fixed = true verdicts of the defect
C5_KeepsBestFixed ==
    (EntryBuilt /\ FixedSeen # {}) =>
        /\ LastEntry.status = "success"
        /\ LastEntry.phase2_deep_learning.is_fixed
        /\ \A v \in FixedSeen :
               LastEntry.phase2_deep_learning.confidence >= v.confidence

\* C6: when no candidate of a defect gave is_fixed = true, the kept verdict
\* is one of the evaluated verdicts with the highest raw signal, and it is
\* reported with is_fixed = false
C6_FallbackKeepsClosest ==
    (EntryBuilt /\ evaluated # {} /\ FixedSeen = {}) =>
        /\ ~LastEntry.phase2_deep_learning.is_fixed
        /\ LastEntry.phase2_deep_learning.verdict = "NOT_FIXED"
        /\ \E v \in evaluated :
               /\ Reports(LastEntry, v)
               /\ \A w \in evaluated : Signal(v) >= Signal(w)

\* two candidates that are not fixed, the second with the larger signal, and
\* the second is the one kept
C6_Witness ==
    /\ EntryBuilt
    /\ FixedSeen = {}
    /\ Cardinality(evaluated) = 2
    /\ best_after_idx = 1
    /\ ~LastEntry.phase2_deep_learning.is_fixed

\* the entry of a defect reports it as fixed
EntryFixed(entry) ==
    entry.status = "success" /\ entry.phase2_deep_learning.is_fixed

\* the overall verdict for the per-defect booleans
VerdictOf(fixed) ==
    IF fixed = <<>> THEN "NO_DEFECT"
    ELSE IF \A i \in 1..Len(fixed) : fixed[i] THEN "FIXED"
    ELSE IF \E i \in 1..Len(fixed) : fixed[i] THEN "PARTIAL"
    ELSE "NOT_FIXED"

\* C7: the overall verdict of a response is determined by the per-defect
\* is_fixed values alone: NO_DEFECT without defects, FIXED when all are
\* fixed, PARTIAL when some are, NOT_FIXED when none is
C7_VerdictFromBooleans ==
    a_pc = "done" =>
        /\ response[1].defects = defect_results
        /\ response[1].verdict =
               VerdictOf([i \in 1..Len(defect_results) |->
                             EntryFixed(defect_results[i])])

\* a response for one fixed and one not fixed defect, both with a verdict
C7_Witness ==
    /\ a_pc = "done"
    /\ Len(defect_results) = 2
    /\ EntryFixed(defect_results[1])
    /\ defect_results[2].status = "success"
    /\ ~EntryFixed(defect_results[2])
    /\ response[1].verdict = "PARTIAL"

\* the region of a detected defect is empty on its before image
EmptyRegion(defect) ==
    RegionSize(convert_bbox_percent_to_pixels(defect.bbox_percent,
                                              defect.before_data.width,
                                              defect.before_data.height),
               defect.before_data.width, defect.before_data.height) = 0

\* C8: a defect whose region is empty is skipped and not counted:
\* total_defects of the response is the number of defects with a region
\* that is not empty
C8_EmptyRegionNotCounted ==
    (a_pc = "done" /\ detected_defects # <<>>) =>
        response[1].total_defects =
            Cardinality({i \in 1..Len(detected_defects) :
                            ~EmptyRegion(detected_defects[i])})

-----------------------------------------------------------------------------
(* Claims about the regions detect_and_verify scores                       *)

\* the regions the loop of detect_and_verify scores, once filtered_regions
\* is filled
ScoredRegions == TopRegions(filtered_regions)

\* area is exactly p percent of the image
ExactlyPercent(area, p10) == 1000 * area = p10 * width * height

C12_LargestFiveScored ==
    pc = "loop" =>
        /\ \A i, j \in 1..Len(filtered_regions) :
               i < j => filtered_regions[i].area >= filtered_regions[j].area
        /\ Len(ScoredRegions) <= 5
        /\ \A i \in 1..Len(ScoredRegions) :
               \A j \in (Len(ScoredRegions) + 1)..Len(filtered_regions) :
                   ScoredRegions[i].area >= filtered_regions[j].area

-----------------------------------------------------------------------------
(* Claims about convert_bbox_percent_to_pixels                             *)

\* C13: for every percentage tuple, negative and out-of-range values
\* included, and every image size, the converted box has
\* 0 <= x1 <= x2 <= W and 0 <= y1 <= y2 <= H
C13_BoxOrderedAndInside ==
    f_pc = "return" =>
        LET b == f_out[1]
        IN  /\ 0 <= b[1] /\ b[1] <= b[3] /\ b[3] <= f_in.img_width
            /\ 0 <= b[2] /\ b[2] <= b[4] /\ b[4] <= f_in.img_height

\* p percent of size, in pixels, is within half a pixel of px
NearestPixel(px, p, size) ==
    /\ 100 * px - p * size <= 50
    /\ p * size - 100 * px <= 50

\* the percentages of a box are in range
InRange(bbox_percent) ==
    /\ bbox_percent[1] >= 0 /\ bbox_percent[3] >= 0
    /\ bbox_percent[1] + bbox_percent[3] <= 100
    /\ bbox_percent[2] >= 0 /\ bbox_percent[4] >= 0
    /\ bbox_percent[2] + bbox_percent[4] <= 100

\* C14: for in-range percentages each pixel coordinate is the percentage of
\* the image's width or height rounded to the nearest pixel
C14_RoundsToNearest ==
    (f_pc = "return" /\ InRange(f_in.bbox_percent)) =>
        LET b == f_out[1]
            p == f_in.bbox_percent
        IN  /\ NearestPixel(b[1], p[1], f_in.img_width)
            /\ NearestPixel(b[2], p[2], f_in.img_height)
            /\ NearestPixel(b[3], p[1] + p[3], f_in.img_width)
            /\ NearestPixel(b[4], p[2] + p[4], f_in.img_height)

-----------------------------------------------------------------------------
(* Claims about the scorers                                                *)

\* C15: of two indicator sets that differ only in rust_reduction, the one
\* with the larger rust_reduction has a repair_score that is not smaller,
\* in both scorers
C15_ScoreMonotoneInRust ==
    (f_pc = "return" /\ f_in.other_rust >= f_in.ind.rust_reduction) =>
        f_out[1].second.repair_score >= f_out[1].first.repair_score

\* a larger rust_reduction that raises the score of the heuristic scorer
C15_Witness ==
    /\ f_pc = "return"
    /\ f_in.scorer = "cv"
    /\ f_in.other_rust > f_in.ind.rust_reduction
    /\ f_out[1].second.repair_score > f_out[1].first.repair_score

\* the threshold of a scorer
ScoreThreshold(svc) == IF svc = "cv" THEN 60 ELSE 45

\* C16: both scorers return a repair_score in 0..100, a confidence of
\* min(score, 100) / 100 in [0, 1], and is_repair exactly when the score is
\* above the scorer's threshold
C16_ScoreInRange ==
    f_pc = "return" =>
        LET r == f_out[1].first
        IN  /\ r.repair_score \in 0..100
            /\ r.confidence = Min(r.repair_score, 100) * 10
            /\ r.confidence \in 0..1000
            /\ Truthy(r.is_repair)
                   <=> r.repair_score > ScoreThreshold(f_in.scorer)

-----------------------------------------------------------------------------
(* Claims about the verdicts of phase 2                                    *)

\* C17: every verdict phase2_verify_repair and phase2_verify_repair_video
\* return has a confidence in [0, 1], and its verdict text is FIXED exactly
\* when is_fixed is true
C17_VerdictConfidenceInRange ==
    \A v \in evaluated :
        /\ v.confidence >= 0
        /\ v.confidence <= 10000
        /\ (v.verdict = "FIXED") <=> v.is_fixed

-----------------------------------------------------------------------------
(* Claims about the frame filter                                           *)

\* the elements of a sequence
Elements(seq) == {seq[k] : k \in 1..Len(seq)}

\* the after frames whose similarity to some before frame is at or above
\* the threshold
MatchingContents ==
    {frame \in Elements(f_in.all_after_frames) :
        \E b \in 1..f_in.n_before :
            f_in.similarity[b][frame] >= FRAME_THRESHOLD}

\* C18: with video among the after uploads, a frame is retained exactly
\* when its similarity to a before frame is at or above the threshold, and
\* when no frame is, all the original frames are used: the candidates are
\* never empty
C18_FilterWithFallback ==
    (f_pc = "return" /\ f_in.after_had_video) =>
        /\ f_out[1] # <<>>
        /\ IF MatchingContents = {}
           THEN f_out[1] = f_in.all_after_frames
           ELSE Elements(f_out[1]) = MatchingContents

\* five frames, all below the threshold, and all five used
C18_Witness ==
    /\ f_pc = "return"
    /\ f_in.after_had_video
    /\ Len(f_in.all_after_frames) = 5
    /\ MatchingContents = {}
    /\ Len(f_out[1]) = 5

-----------------------------------------------------------------------------
(* Claims about align_images                                               *)

\* the matches that survive the top-50% cut
SurvivingMatches == f_in.outcome.n_matches \div 2

\* C19: align_images never raises; it returns the candidate unmodified when
\* either image has no descriptors or fewer than 10 matches survive the
\* top-50% cut, and the warped candidate when at least 10 survive
C19_AlignNeverRaises ==
    f_pc = "return" =>
        /\ ~f_out[1].raises
        /\ IF \/ f_in.outcome.descriptors1 = <<>>
              \/ f_in.outcome.descriptors2 = <<>>
              \/ SurvivingMatches < 10
           THEN f_out[1].image = "img2"
           ELSE f_out[1].image = "aligned_img2"

-----------------------------------------------------------------------------
(* Claims about the parsing of the provider's answer                       *)

\* the token the prompt tells the provider to start a negative answer with,
\* lowercased
not_repaired_token ==
    <<"n", "o", "t", "_", "r", "e", "p", "a", "i", "r", "e", "d">>

\* the text holds an explicit negative or a false-positive phrase
HasNegative(response_lower) ==
    \/ AnyIn(not_repaired_phrases, response_lower)
    \/ Contains(response_lower, not_repaired_token)
    \/ AnyIn(false_positive_phrases, response_lower)

\* the text holds a positive keyword
HasPositive(response_lower) ==
    \/ AnyIn(strong_repair_words, response_lower)
    \/ AnyIn(repair_keyword_words, response_lower)

\* C20: a text with an explicit negative (the token NOT_REPAIRED included)
\* or a lighting/angle/shadow phrase parses to NOT_REPAIRED with is_repair
\* false, whatever positive keywords it holds, and REPAIRED is returned only
\* for a text with a positive keyword and no negative
C20_NegativePriority ==
    f_pc = "return" =>
        /\ HasNegative(lower(f_in)) =>
               /\ f_out[1].verdict = "NOT_REPAIRED"
               /\ f_out[1].is_repair = "False"
        /\ f_out[1].verdict = "REPAIRED" =>
               /\ HasPositive(lower(f_in))
               /\ ~HasNegative(lower(f_in))

\* the base confidence of the verdict returned for a text: 0.90 or 0.75 for
\* REPAIRED (with or without a strong indicator), 0.85 for NOT_REPAIRED, 0.50
\* for UNCERTAIN
BaseConfidence(verdict, response_lower) ==
    IF verdict = "REPAIRED"
    THEN IF AnyIn(strong_repair_words, response_lower) THEN 900 ELSE 750
    ELSE IF verdict = "NOT_REPAIRED" THEN 850
    ELSE 500

\* the text holds certainty language
IsCertain(response_lower) == AnyIn(certain_words, response_lower)

\* the text holds hedging language
IsHedged(response_lower) == AnyIn(hedging_words, response_lower)

\* the text holds no positive, negative or false-positive keyword
NoKeyword(response_lower) ==
    /\ ~HasPositive(response_lower)
    /\ ~AnyIn(not_repaired_phrases, response_lower)
    /\ ~AnyIn(false_positive_phrases, response_lower)

\* C21 as stated: a text without keyword is UNCERTAIN with base 0.5, and
\* for every verdict certainty language raises the base confidence by
\* exactly 0.1 and hedging language lowers it by exactly 0.2
C21_ExactAdjustments ==
    f_pc = "return" =>
        LET text == lower(f_in)
            base == BaseConfidence(f_out[1].verdict, text)
        IN  /\ NoKeyword(text) =>
                   f_out[1].verdict = "UNCERTAIN" /\ base = 500
            /\ IsCertain(text) => f_out[1].confidence = base + 100
            /\ (IsHedged(text) /\ ~IsCertain(text)) =>
                   f_out[1].confidence = base - 200
            /\ (~IsHedged(text) /\ ~IsCertain(text)) =>
                   f_out[1].confidence = base

\* C21 as amended: a text without keyword is UNCERTAIN with base 0.5;
\* certainty language raises the base confidence by 0.1 but to no more than
\* 0.95; otherwise hedging language lowers it by 0.2 but to no less than
\* 0.4; otherwise the confidence is the base
C21_BoundedAdjustments ==
    f_pc = "return" =>
        LET text == lower(f_in)
            base == BaseConfidence(f_out[1].verdict, text)
        IN  /\ NoKeyword(text) =>
                   f_out[1].verdict = "UNCERTAIN" /\ base = 500
            /\ IsCertain(text) =>
                   f_out[1].confidence = Min(950, base + 100)
            /\ (IsHedged(text) /\ ~IsCertain(text)) =>
                   f_out[1].confidence = Max(400, base - 200)
            /\ (~IsHedged(text) /\ ~IsCertain(text)) =>
                   f_out[1].confidence = base

\* a strong repair indicator with certainty language: 0.90 raised to 0.95
C21_Witness ==
    /\ f_pc = "return"
    /\ IsCertain(lower(f_in))
    /\ f_out[1].verdict = "REPAIRED"
    /\ BaseConfidence(f_out[1].verdict, lower(f_in)) = 900
    /\ f_out[1].confidence = 950

-----------------------------------------------------------------------------
(* Claims about the result of detect_and_verify                            *)

\* the status and summary detect_and_verify reports when find_differences
\* found no region at all
NeverFoundReport ==
    [status |-> "FAIL", summary |-> _generate_summary(0, 0)]

\* the status and summary of the returned dictionary
Report == [status |-> result[1].status, summary |-> result[1].summary]

\* C22: when no region survives the area filter, the status and summary
\* tell whether regions existed before filtering: they are those of the
\* case where none was ever found only when none was found
C22_FilteredOutReportedDistinctly ==
    (pc = "done" /\ filtered_regions = <<>>) =>
        (Report = NeverFoundReport <=> changed_regions = <<>>)

-----------------------------------------------------------------------------
(* Claims about a failed deep feature extraction                           *)

\* the indicators analyze_repair_quality_deep returns when the extraction
\* of the deep features succeeded
MeasuredIndicators ==
    {analyze_repair_quality_deep(ind, TRUE).indicators :
         ind \in ScoreMeasurements}

\* "Traditional metrics (60% weight)": the points of the four indicators
\* that need no deep features
TraditionalPoints(ind) ==
      Points(ind.rust_reduction > 5, 20)
    + Points(ind.brightness_increase > 5, 15)
    + Points(ind.uniformity_improvement > 0, 15)
    + Points(ind.edge_reduction > 10, 10)

\* C23: when the deep feature extraction fails, the returned indicators do
\* not read as those of a successful extraction (feature_distance and
\* perceptual_similarity are marked unavailable), and the score holds the
\* points of the traditional metrics only
C23_DeepFailureExplicit ==
    (f_pc = "return" /\ f_in.scorer = "deep" /\ ~f_in.deep_ok) =>
        /\ f_out[1].first.indicators \notin MeasuredIndicators
        /\ f_out[1].first.repair_score = TraditionalPoints(f_in.ind)

-----------------------------------------------------------------------------
(* Claims about what merge_nearby_boxes keeps                              *)

\* the least and the greatest number of a non-empty set
SetMin(S) == CHOOSE x \in S : \A y \in S : x <= y

SetMax(S) == CHOOSE x \in S : \A y \in S : x >= y

\* the sum of the areas of the regions at the positions S
RECURSIVE SumAreas(_, _)
SumAreas(regions, S) ==
    IF S = {} THEN 0
    ELSE LET i == CHOOSE i \in S : TRUE
         IN  regions[i].area + SumAreas(regions, S \ {i})

\* the output region out is the bounding extent and the summed area of the
\* input regions at the positions S
Absorbs(out, regions, S) ==
    /\ S # {}
    /\ out.bbox.x1 = SetMin({regions[i].bbox.x1 : i \in S})
    /\ out.bbox.y1 = SetMin({regions[i].bbox.y1 : i \in S})
    /\ out.bbox.x2 = SetMax({regions[i].bbox.x2 : i \in S})
    /\ out.bbox.y2 = SetMax({regions[i].bbox.y2 : i \in S})
    /\ out.bbox.x1 < out.bbox.x2
    /\ out.bbox.y1 < out.bbox.y2
    /\ out.area = SumAreas(regions, S)

\* merged is a merge of regions: every input is absorbed into exactly one
\* output, so there are no more outputs than inputs and as much area
Conserves(regions, merged) ==
    /\ \E owner \in [1..Len(regions) -> 1..Len(merged)] :
           \A o \in 1..Len(merged) :
               Absorbs(merged[o], regions,
                       {i \in 1..Len(regions) : owner[i] = o})
    /\ Len(merged) <= Len(regions)
    /\ SumAreas(merged, 1..Len(merged)) = SumAreas(regions, 1..Len(regions))

\* C24: each input region of merge_nearby_boxes is absorbed into exactly one
\* output region, whose box is the bounding extent and whose area is the sum
\* of the areas of the inputs it absorbed; the output has no more regions
\* than the input and the same total area
C24_MergeConserves ==
    /\ m_pc \in {"merged", "remerged"} => Conserves(m_regions, m_once)
    /\ m_pc = "remerged" => Conserves(m_once, m_twice)

\* three contours merged into two regions
C24_Witness ==
    /\ m_pc = "merged"
    /\ Len(m_regions) = 3
    /\ Len(m_once) = 2

-----------------------------------------------------------------------------
(* Claims about failures inside /analyze                                   *)

\* "for defect in detected_defects" is over
DefectsProcessed ==
    a_pc = "aggregate" \/ (a_pc = "done" /\ detected_defects # <<>>)

\* C25: an exception raised while a candidate is compared is caught: the
\* request goes on until it returns a response, every candidate of the
\* defect is still tried and every detected defect gets its entry, and a
\* defect without any verdict gets an entry of status "error"
C25_CandidateFailureIsolated ==
    /\ (failed # {} /\ a_pc # "done") => ENABLED NextAnalyze
    /\ a_pc = "done" => response # <<>>
    /\ EntryBuilt => c_idx = n_after + 1
    /\ DefectsProcessed => Len(defect_results) = Len(detected_defects)
    /\ (EntryBuilt /\ evaluated = {}) => LastEntry.status = "error"

\* the first defect has no verdict and an "error" entry; for the second
\* defect the first candidate raised and the second was evaluated and kept
C25_Witness ==
    /\ a_pc = "done"
    /\ Len(defect_results) = 2
    /\ defect_results[1].status = "error"
    /\ failed = {0}
    /\ best_after_idx = 1
    /\ LastEntry.status = "success"

-----------------------------------------------------------------------------
(* Claims about the scan over the candidates of one defect                 *)

\* a verdict with is_fixed = true is kept as best
FixedKept == best_result # <<>> /\ best_result[1].is_fixed

\* the kept verdict and its candidate stay as they are
BestStays ==
    /\ best_result' = best_result
    /\ best_after_idx' = best_after_idx

\* the kept verdict is replaced by a fixed one of strictly higher confidence
BestImproves ==
    /\ best_result' # <<>>
    /\ best_result'[1].is_fixed
    /\ best_result'[1].confidence > best_result[1].confidence

\* C26: during the scan over the candidates of a defect, once a verdict
\* with is_fixed = true is kept as best it is replaced only by a verdict
\* with is_fixed = true of strictly higher confidence: never by one that is
\* not fixed, and not by one of equal confidence
C26_FixedBestOnlyImproves ==
    [][(a_pc = "match" /\ FixedKept) => (BestStays \/ BestImproves)]_vars

\* two candidates with the same fixed verdict: the first one is kept
C26_Witness ==
    /\ a_pc = "match"
    /\ c_idx = 3
    /\ failed = {}
    /\ Cardinality(evaluated) = 1
    /\ FixedKept
    /\ best_after_idx = 0

-----------------------------------------------------------------------------
(* Claims about a failure of the defect proposer                           *)

\* C27: the overall verdict NO_DEFECT is returned only when the proposer
\* answered "no defect" for every before image: not when a call of
\* phase1_detect_defect raised or its response could not be parsed
C27_ProposerFailureNotNoDefect ==
    (a_pc = "done" /\ response[1].verdict = "NO_DEFECT") => ~phase1_failed

-----------------------------------------------------------------------------
(* Claims about the totals of detect_and_verify                            *)

\* C28: in every result of detect_and_verify, verified_repairs is at most
\* detected_changes, which is at most 5; status is PASS exactly when
\* verified_repairs is above 0; and the overall confidence lies in [0, 1]
C28_ResultTotalsInRange ==
    pc = "done" =>
        /\ result[1].verified_repairs <= result[1].detected_changes
        /\ result[1].detected_changes <= 5
        /\ result[1].status = "PASS" <=> result[1].verified_repairs > 0
        /\ result[1].confidence >= 0
        /\ result[1].confidence <= 1000

-----------------------------------------------------------------------------
(* Claims about the entries of the /analyze response                       *)

\* the entries built so far are those of the first detected defects, in the
\* order of detection
EntriesInOrder ==
    /\ Len(defect_results) <= Len(detected_defects)
    /\ \A i \in 1..Len(defect_results) :
           /\ defect_results[i].defect_id = detected_defects[i].defect_id
           /\ defect_results[i].before_image_idx
                  = detected_defects[i].before_image_idx

\* the after index of every "success" entry is an index into after_data
IndexesValid ==
    \A i \in 1..Len(defect_results) :
        defect_results[i].status = "success" =>
            defect_results[i].best_after_image_idx \in 0..(n_after - 1)

\* the entry just built reports the verdict and the candidate kept by the
\* scan
LastEntryIsKept ==
    (EntryBuilt /\ LastEntry.status = "success") =>
        /\ LastEntry.best_after_image_idx = best_after_idx
        /\ Reports(LastEntry, best_result[1])

\* whenever the scan changes what it keeps, it keeps the verdict of the
\* candidate it is at, under that candidate's index
KeepsCurrentCandidate ==
    (a_pc = "match"
       /\ (best_result' # best_result \/ best_after_idx' # best_after_idx)) =>
        /\ best_after_idx' = c_idx - 1
        /\ best_result' # <<>>
        /\ best_result'[1] \in evaluated'

\* the totals of the response
TotalsMatch ==
    a_pc = "done" =>
        /\ response[1].defects = defect_results
        /\ response[1].total_defects = Len(detected_defects)
        /\ response[1].total_defects >= 1
        /\ response[1].fixed_count \in 0..response[1].total_defects

\* C29: a response that reaches aggregation has one entry per detected
\* defect, in detection order; total_defects is their number and at least
\* 1; fixed_count is between 0 and total_defects; and the after index of a
\* "success" entry is a valid index that names the candidate whose verdict
\* was kept
C29_OneEntryPerDefect ==
    /\ [](DefectsProcessed =>
              /\ Len(defect_results) = Len(detected_defects)
              /\ TotalsMatch)
    /\ [](EntriesInOrder /\ IndexesValid /\ LastEntryIsKept)
    /\ [][KeepsCurrentCandidate]_vars

\* two defects, both with a verdict, the second kept from the candidate of
\* index 1, and one of them fixed
C29_Witness ==
    /\ a_pc = "done"
    /\ response[1].total_defects = 2
    /\ response[1].fixed_count = 1
    /\ defect_results[1].status = "success"
    /\ LastEntry.status = "success"
    /\ LastEntry.best_after_image_idx = 1

-----------------------------------------------------------------------------
(* Claims about the candidates at the start of phase 1                     *)

\* every upload of the request gave at least one frame
EveryUploadHasFrames ==
    \A uploads \in {f_in.before_images, f_in.after_images} :
        \A i \in 1..Len(uploads) :
            /\ process_upload(uploads[i]).raises = ""
            /\ process_upload(uploads[i]).frames # <<>>

\* no after frame is similar enough to any before frame
NothingMatches ==
    \A b \in DOMAIN f_out[1].similarity :
        \A k \in 1..Len(f_out[1].uploaded_after_frames) :
            f_out[1].similarity[b][f_out[1].uploaded_after_frames[k]]
                < FRAME_THRESHOLD

\* C30: when phase 1 starts, after_data is not empty: every upload of a
\* request that was not rejected gave at least one frame, and the frame
\* filter leaves at least one candidate
C30_CandidatesNeverEmpty ==
    /\ f_pc \in {"filter", "phase1"} => EveryUploadHasFrames
    /\ f_pc = "filter" => f_out[1].all_after_frames # <<>>
    /\ f_pc = "phase1" => f_out[1].after_data # <<>>

\* a file that does not open as an image gives two frames as a video, none
\* of them matches, and both are candidates
C30_Witness ==
    /\ f_pc = "phase1"
    /\ \E i \in 1..Len(f_in.after_images) :
           ~f_in.after_images[i].is_video /\ ~f_in.after_images[i].opens
    /\ f_out[1].after_had_video
    /\ NothingMatches
    /\ Len(f_out[1].after_data) = 2

=============================================================================
